---- MODULE Spec2Model ----
(***************************************************************************)
(* Model of the generic containers of the JerryBoree project: the doubly   *)
(* linked list (LinkedList.c), the key-value pair (KeyValuePair.c), the    *)
(* separate-chaining hash table (HashTable.c), the multi-value hash table  *)
(* (MultiValueHashTable.c) and the table-size policy of JerryBoreeMain.c.  *)
(*                                                                         *)
(* A list is a record holding the fields of struct LinkedList_s together   *)
(* with the fields of its nodes (next, prev, data as functions of the node *)
(* cell) and the set of node cells that are currently allocated.           *)
(***************************************************************************)
EXTENDS Integers, Sequences, FiniteSets, TLC

VARIABLES
    lst,     \* the LinkedList of the list specification
    lcall,   \* the last list call: operation, arguments, result
    ghost,   \* history: the sequence the calls on list should have built
    scen     \* history: progress through "append e1, e2, e3; delete e2;
             \* append e4" on the fresh list, -1 once another update was made

VARIABLES
    fbp_number,   \* FindBiggerPrimeNumber: the argument
    fbp_i,        \* its local i
    fbp_isPrime,  \* its local isPrime
    fbp_pc,       \* where the call stands: "start", "loop", "done", "trap"
    fbp_ret       \* the value returned

VARIABLES
    charSigned,  \* the build: whether plain char is a signed type
    ht,          \* the hashTable of the hash-table specification
    hcall,       \* the last hash-table call: operation, arguments, result
    hpc,         \* "run", or "trap" once a call has trapped
    hghost,      \* history: key -> value of the successful adds not removed
    rt,          \* history: progress through "add k; remove k", with the
                 \* pairs the table held before that add
    hmem         \* history: the copies the successful adds made, with the
                 \* number of times each is still to be freed

VARIABLES
    mv,     \* the multiHashTable of the multi-value specification
    mheap,  \* the value lists it allocated, by address (NULL: not allocated)
    mcall,  \* the last multi-value call: operation, key, result
    mpc,    \* "run", or "trap" once a call has trapped
    mmem    \* history: the lists, values and key copies the successful adds
            \* made, with the number of times each is still to be freed

VARIABLES
    ctor    \* a constructor call: its arguments, then what it returned

VARIABLES
    ncall   \* the last call made with a null argument, and its result

VARIABLES
    JerriesList,       \* main's list of the Jerries in the daycare
    JerriesHash,       \* main's hash table: ID -> Jerry
    PhycharMultiHash,  \* main's multi-value table: characteristic -> Jerries
    phyLists,          \* the value lists of PhycharMultiHash, by address
    jerryObj,          \* the jerry structs, by ID (NULL: no such struct)
    bcall,             \* the last menu command: its inputs and its result
    bpc,               \* "run", "exit" once main has returned, or "trap"
    plays,             \* history: the number of activities played
    life               \* history: the lifetime of main's four structures

listVars == <<lst, lcall, ghost, scen>>
htOwn == <<ht, hcall, hpc, hghost, rt, hmem>>
htVars == <<charSigned, htOwn>>
primeVars == <<fbp_number, fbp_i, fbp_isPrime, fbp_pc, fbp_ret>>
mvVars == <<mv, mheap, mcall, mpc, mmem>>
boreeVars == <<JerriesList, JerriesHash, PhycharMultiHash, phyLists,
               jerryObj, bcall, bpc, plays, life>>
vars == <<listVars, primeVars, htVars, mvVars, ctor, ncall, boreeVars>>
\* what a step of one specification leaves alone
notList == <<primeVars, htVars, mvVars, ctor, ncall, boreeVars>>
notPrime == <<listVars, htVars, mvVars, ctor, ncall, boreeVars>>
notHt == <<listVars, primeVars, mvVars, ctor, ncall, boreeVars>>
notMv == <<listVars, primeVars, htOwn, ctor, ncall, boreeVars>>
notCtor == <<listVars, primeVars, htVars, mvVars, ncall, boreeVars>>

(* ------------------------------ bounds --------------------------------- *)
\* number of node cells the allocator can hand out to one list
MaxNodes == 3
\* longest list the list specification builds
MaxLen == 3
\* number of distinct elements appended to the list of the list specification
MaxElem == 4
\* FindBiggerPrimeNumber is called with the numbers -MaxNeg .. MaxN (and with
\* the two largest values of an int)
MaxN == 40
MaxNeg == 3
\* number of buckets of the table of the hash-table specification
TableSize == 3
\* number of distinct values stored in that table
MaxVal == 2
\* longest value list the multi-value specification builds
MaxValues == 3

(* ------------------------------ Defs.h --------------------------------- *)
\* Every Element (string, pair, list handle) is a record, and so is the null
\* Element; node pointers are cell numbers and the null node pointer is NIL.
NULL == [null |-> TRUE]
NIL == 0

\* a C string as the sequence of its (signed) char codes
Str(chars) == [str |-> chars]

success == "success"
Memory_Problem == "Memory_Problem"
Invalid_input == "Invalid_input"
failure == "failure"
no_element == "no_element"
element_exist == "element_exist"

NodeIds == 1..MaxNodes

Min(a, b) == IF a <= b THEN a ELSE b
Max(a, b) == IF a >= b THEN a ELSE b

\* outcome of the allocations of one call: every malloc succeeds, the malloc
\* of the node fails, or the caller's copy function fails
MemOutcomes == {"ok", "node_fail", "copy_fail"}

(* ----------------------- caller-supplied callbacks ---------------------- *)
\* strcmp(keyStr, StrToEqual) == 0 : strings are sequences of char codes
EqualKeyString(keyStr, StrToEqual) ==
    IF keyStr = NULL \/ StrToEqual = NULL THEN FALSE
    ELSE keyStr = StrToEqual

\* malloc + strcpy: an equal string, or NULL when malloc fails
CopyKeyString(element, mem) ==
    IF element = NULL THEN NULL
    ELSE IF mem = "copy_fail" THEN NULL
    ELSE element

ShallowCopy(element) == element

\* isEqualKey of KeyValuePair.c: the pair's equalKey on the pair's key
isEqualKey(kvPair, key) ==
    IF kvPair = NULL \/ key = NULL THEN FALSE
    ELSE EqualKeyString(kvPair.key, key)

\* equalForInnerList that takes every pair for a match
equalForInnerList_any(kvp, key) == kvp # NULL /\ key # NULL

equalForInnerList(kvp, key) ==
    IF kvp = NULL \/ key = NULL THEN FALSE
    ELSE isEqualKey(kvp, key)

copyKeyValuePairs(element) == element

\* strcmp(((jerry *) jerr)->ID, key) == 0
EqualJerryInLink(jerr, key) ==
    IF jerr = NULL \/ key = NULL THEN FALSE
    ELSE jerr.ID = key

\* list->equal(data, key), by the function stored in the list
CallEqual(fn, data, key) ==
    CASE fn = "equalForInnerList" -> equalForInnerList(data, key)
      [] fn = "EqualKeyString"    -> EqualKeyString(data, key)
      [] fn = "EqualJerryInLink"  -> EqualJerryInLink(data, key)
      [] OTHER                    -> FALSE

\* list->copyElement(data), by the function stored in the list
CallCopy(fn, data, mem) ==
    CASE fn = "copyKeyValuePairs" -> copyKeyValuePairs(data)
      [] fn = "ShallowCopy"       -> ShallowCopy(data)
      [] fn = "CopyKeyString"     -> CopyKeyString(data, mem)
      [] OTHER                    -> NULL

(* ---------------------------- LinkedList.c ------------------------------ *)
createLinkedList(copyFunc, freeFunc, equalFunc) ==
    IF copyFunc = "NULL" \/ freeFunc = "NULL" \/ equalFunc = "NULL" THEN NULL
    ELSE [head |-> NIL, tail |-> NIL, count_elements |-> 0,
          next |-> [n \in NodeIds |-> NIL],
          prev |-> [n \in NodeIds |-> NIL],
          data |-> [n \in NodeIds |-> NULL],
          nodes |-> {},
          copyElement |-> copyFunc, freeElement |-> freeFunc,
          equal |-> equalFunc]

\* the cells malloc may return to this list
FreeNodes(list) == NodeIds \ list.nodes

\* the cell malloc returns for the next node of the list (NIL: none is left).
\* A freed cell is as good as a cell never used and no operation compares or
\* orders node addresses, so the lists built with any other choice of cells
\* are these with the cells renamed: the first free cell stands for all.
FirstFree(list) ==
    IF list = NULL \/ FreeNodes(list) = {} THEN NIL
    ELSE CHOOSE n \in FreeNodes(list) : \A m \in FreeNodes(list) : n <= m

\* createNode: malloc of cell n, then node->data = copyElement(data); the
\* result is the node (NULL on failure) and the list's heap afterwards
createNode(data, list, n, mem) ==
    IF data = NULL \/ list = NULL THEN [node |-> NIL, list |-> list]
    ELSE IF mem = "node_fail" \/ n = NIL THEN [node |-> NIL, list |-> list]
    ELSE LET c == CallCopy(list.copyElement, data, mem) IN
         IF c = NULL THEN [node |-> NIL, list |-> list]
         ELSE [node |-> n,
               list |-> [list EXCEPT !.data[n] = c,
                                     !.nodes = @ \cup {n}]]

\* appendNode that counts the element before it knows the node was made
appendNode_count(list, element, n, mem) ==
    IF list = NULL \/ element = NULL
    THEN [status |-> Invalid_input, list |-> list]
    ELSE LET r == createNode(element, list, n, mem) IN
         IF r.node = NIL
         THEN [status |-> Memory_Problem,
               list |-> [list EXCEPT !.count_elements = @ + 1]]
         ELSE IF list.head = NIL
         THEN [status |-> success,
               list |-> [r.list EXCEPT !.head = r.node,
                                       !.next[r.node] = NIL,
                                       !.prev[r.node] = NIL,
                                       !.count_elements = 1,
                                       !.tail = r.node]]
         ELSE [status |-> success,
               list |-> [r.list EXCEPT !.next[list.tail] = r.node,
                                       !.next[r.node] = NIL,
                                       !.prev[r.node] = list.tail,
                                       !.tail = r.node,
                                       !.count_elements = @ + 1]]

appendNode(list, element, n, mem) ==
    IF list = NULL \/ element = NULL
    THEN [status |-> Invalid_input, list |-> list]
    ELSE IF list.head = NIL
    THEN LET r == createNode(element, list, n, mem) IN
         IF r.node = NIL
         THEN [status |-> Memory_Problem, list |-> [list EXCEPT !.head = NIL]]
         ELSE [status |-> success,
               list |-> [r.list EXCEPT !.head = r.node,
                                       !.next[r.node] = NIL,
                                       !.prev[r.node] = NIL,
                                       !.count_elements = 1,
                                       !.tail = r.node]]
    ELSE LET r == createNode(element, list, n, mem) IN
         IF r.node = NIL
         THEN [status |-> Memory_Problem,
               list |-> [list EXCEPT !.next[list.tail] = NIL]]
         ELSE [status |-> success,
               list |-> [r.list EXCEPT !.next[list.tail] = r.node,
                                       !.next[r.node] = NIL,
                                       !.prev[r.node] = list.tail,
                                       !.tail = r.node,
                                       !.count_elements = @ + 1]]


\* the element of a set of one element: Only({e(r) : r \in {call}}) is e
\* with r standing for the value the call returned
Only(S) == CHOOSE x \in S : TRUE
\* FindNode without the return at the first match: the last matching node
RECURSIVE FindNode_last(_, _, _, _)
FindNode_last(list, curr, key, fuel) ==
    IF curr = NIL \/ fuel = 0 THEN NIL
    ELSE LET later == FindNode_last(list, list.next[curr], key, fuel - 1) IN
         IF later # NIL THEN later
         ELSE IF CallEqual(list.equal, list.data[curr], key) THEN curr
         ELSE NIL

\* the loop "while (curr != NULL) { if (equal(curr->data, key)) ...; curr =
\* curr->next; }" of deleteNode and searchByKeyInList: the first node from
\* curr on whose data matches, or NULL.  fuel bounds the walk.
RECURSIVE FindNode(_, _, _, _)
FindNode(list, curr, key, fuel) ==
    IF curr = NIL \/ fuel = 0 THEN NIL
    ELSE IF CallEqual(list.equal, list.data[curr], key) THEN curr
    ELSE FindNode(list, list.next[curr], key, fuel - 1)

\* free(curr) of a node: the cell goes back to the allocator
FreeNode(list, curr) ==
    [list EXCEPT !.nodes = @ \ {curr},
                 !.data[curr] = NULL,
                 !.next[curr] = NIL,
                 !.prev[curr] = NIL]

\* deleteNode that leaves the new head's prev pointing at the deleted node
deleteNode_keepPrev(list, PrameterToEqual) ==
    IF list = NULL \/ PrameterToEqual = NULL
    THEN [status |-> Invalid_input, list |-> list, freed |-> <<>>]
    ELSE LET curr == FindNode(list, list.head, PrameterToEqual, MaxNodes + 1) IN
    IF curr = NIL THEN [status |-> no_element, list |-> list, freed |-> <<>>]
    ELSE LET relinked ==
               IF curr = list.head
               THEN IF list.next[curr] # NIL
                    THEN [list EXCEPT !.head = list.next[curr]]
                    ELSE list
               ELSE IF curr = list.tail
               THEN [list EXCEPT !.next[list.prev[curr]] = NIL,
                                 !.tail = list.prev[curr]]
               ELSE [list EXCEPT !.next[list.prev[curr]] = list.next[curr],
                                 !.prev[list.next[curr]] = list.prev[curr]]
             freed == FreeNode(relinked, curr)
             counted == [freed EXCEPT !.count_elements = @ - 1]
         IN [status |-> success,
             list |-> IF counted.count_elements = 0
                      THEN [counted EXCEPT !.head = NIL, !.tail = NIL]
                      ELSE counted,
             freed |-> <<list.data[curr]>>]

\* deleteNode that does not test the key for null: no element matches it
deleteNode_nokey(list, PrameterToEqual) ==
    IF list = NULL
    THEN [status |-> Invalid_input, list |-> list, freed |-> <<>>]
    ELSE LET curr == FindNode(list, list.head, PrameterToEqual, MaxNodes + 1) IN
    IF curr = NIL THEN [status |-> no_element, list |-> list, freed |-> <<>>]
    ELSE LET relinked ==
               IF curr = list.head
               THEN IF list.next[curr] # NIL
                    THEN [list EXCEPT !.prev[list.next[curr]] = NIL,
                                      !.head = list.next[curr]]
                    ELSE list
               ELSE IF curr = list.tail
               THEN [list EXCEPT !.next[list.prev[curr]] = NIL,
                                 !.tail = list.prev[curr]]
               ELSE [list EXCEPT !.next[list.prev[curr]] = list.next[curr],
                                 !.prev[list.next[curr]] = list.prev[curr]]
             freed == FreeNode(relinked, curr)
             counted == [freed EXCEPT !.count_elements = @ - 1]
         IN [status |-> success,
             list |-> IF counted.count_elements = 0
                      THEN [counted EXCEPT !.head = NIL, !.tail = NIL]
                      ELSE counted,
             freed |-> <<list.data[curr]>>]

deleteNode(list, PrameterToEqual) ==
    IF list = NULL \/ PrameterToEqual = NULL
    THEN [status |-> Invalid_input, list |-> list, freed |-> <<>>]
    ELSE Only({
    IF curr = NIL THEN [status |-> no_element, list |-> list, freed |-> <<>>]
    ELSE Only({
         [status |-> success,
          list |-> IF counted.count_elements = 0
                   THEN [counted EXCEPT !.head = NIL, !.tail = NIL]
                   ELSE counted,
          freed |-> <<list.data[curr]>>]
         : counted \in
              {[FreeNode(
                  IF curr = list.head
                  THEN IF list.next[curr] # NIL
                       THEN [list EXCEPT !.prev[list.next[curr]] = NIL,
                                         !.head = list.next[curr]]
                       ELSE list
                  ELSE IF curr = list.tail
                  THEN [list EXCEPT !.next[list.prev[curr]] = NIL,
                                    !.tail = list.prev[curr]]
                  ELSE [list EXCEPT
                           !.next[list.prev[curr]] = list.next[curr],
                           !.prev[list.next[curr]] = list.prev[curr]],
                  curr) EXCEPT !.count_elements = @ - 1]} })
    : curr \in {FindNode(list, list.head, PrameterToEqual, MaxNodes + 1)} })

\* "for (i = 1; i < index; i++) curr = curr->next"
RECURSIVE NthNode(_, _, _)
NthNode(list, curr, steps) ==
    IF steps = 0 THEN curr
    ELSE NthNode(list, list.next[curr], steps - 1)

\* getDataByIndex that takes the index as counted from 0
getDataByIndex_zero(list, index, mem) ==
    IF list = NULL THEN NULL
    ELSE IF index < 0 \/ index >= list.count_elements THEN NULL
    ELSE LET curr == NthNode(list, list.head, index) IN
         CallCopy(list.copyElement, list.data[curr], mem)

getDataByIndex(list, index, mem) ==
    IF list = NULL THEN NULL
    ELSE IF index < 1 \/ index > list.count_elements THEN NULL
    ELSE LET curr == NthNode(list, list.head, index - 1) IN
         CallCopy(list.copyElement, list.data[curr], mem)

\* getLengthList counting one element too many
getLengthList_off(list) == IF list = NULL THEN -1 ELSE list.count_elements + 1

getLengthList(list) == IF list = NULL THEN -1 ELSE list.count_elements

\* searchByKeyInList that compares the head of the list only
searchByKeyInList_head(list, key, mem) ==
    IF list = NULL \/ key = NULL THEN NULL
    ELSE LET curr == FindNode(list, list.head, key, 1) IN
         IF curr = NIL THEN NULL
         ELSE CallCopy(list.copyElement, list.data[curr], mem)

searchByKeyInList(list, key, mem) ==
    IF list = NULL \/ key = NULL THEN NULL
    ELSE LET curr == FindNode(list, list.head, key, MaxNodes + 1) IN
         IF curr = NIL THEN NULL
         ELSE CallCopy(list.copyElement, list.data[curr], mem)

\* the nodes reached from curr by following next, at most fuel of them
RECURSIVE WalkFrom(_, _, _)
WalkFrom(l, curr, fuel) ==
    IF curr = NIL \/ fuel = 0 THEN <<>>
    ELSE <<curr>> \o WalkFrom(l, l.next[curr], fuel - 1)

Walk(l) == WalkFrom(l, l.head, MaxNodes + 1)

\* the cells of s in increasing order
RECURSIVE Ascending(_)
Ascending(s) ==
    IF s = {} THEN <<>>
    ELSE LET n == CHOOSE c \in s : \A m \in s : c <= m
         IN <<n>> \o Ascending(s \ {n})

\* The list with its nodes moved to other addresses: the nodes reached from
\* the head take the cells 1, 2, ... in list order and every other cell
\* keeps its rank.  Each pointer of the list is carried along, so the
\* result is the same linked structure.  No operation compares, orders or
\* prints a node address, hence a call answers and updates the renamed list
\* as it does the original.
Relocate(list) ==
    IF list = NULL THEN NULL
    ELSE
    LET w == Walk(list)
        reached == {w[i] : i \in 1..Len(w)}
        ord == IF Len(w) > MaxNodes THEN Ascending(NodeIds)
               ELSE w \o Ascending(NodeIds \ reached)
        to(c) == IF c = NIL THEN NIL
                 ELSE CHOOSE i \in NodeIds : ord[i] = c
    IN [list EXCEPT !.head = to(list.head),
                    !.tail = to(list.tail),
                    !.next = [i \in NodeIds |-> to(list.next[ord[i]])],
                    !.prev = [i \in NodeIds |-> to(list.prev[ord[i]])],
                    !.data = [i \in NodeIds |-> list.data[ord[i]]],
                    !.nodes = {to(c) : c \in list.nodes}]

\* the data of the nodes reached from the head, in order
Contents(l) == [i \in 1..Len(Walk(l)) |-> l.data[Walk(l)[i]]]

\* the elements destroyList passes to list->freeElement, in order, before it
\* frees the nodes and the list
destroyList(list) == IF list = NULL THEN <<>> ELSE Contents(list)

(* ------------- the variables of a specification that is not run -------- *)
NoCall == [op |-> "none", status |-> "none", pos |-> "none"]

ListIdle ==
    /\ lst = NULL
    /\ lcall = NoCall
    /\ ghost = <<>>
    /\ scen = 0

PrimeIdle ==
    /\ fbp_number = 0
    /\ fbp_i = 0
    /\ fbp_isPrime = FALSE
    /\ fbp_pc = "idle"
    /\ fbp_ret = 0

NoHCall == [op |-> "none", key |-> NULL, value |-> NULL, status |-> "none",
            index |-> 0, kept |-> {}, freed |-> <<>>]

\* the ledger of owned objects: nothing owned, nothing freed twice
NoMem == [live |-> <<>>, twice |-> {}]

NoRoundTrip == [stage |-> 0, key |-> NULL, before |-> <<>>]

HtUnused ==
    /\ ht = NULL
    /\ hcall = NoHCall
    /\ hpc = "idle"
    /\ hghost = <<>>
    /\ rt = NoRoundTrip
    /\ hmem = NoMem

HtIdle ==
    /\ charSigned = FALSE
    /\ HtUnused

NoMCall == [op |-> "none", key |-> NULL, value |-> NULL, status |-> "none",
            built |-> FALSE, append |-> "none", insert |-> "none",
            destroyed |-> 0, freed |-> <<>>]

MvIdle ==
    /\ mv = NULL
    /\ mheap = <<>>
    /\ mcall = NoMCall
    /\ mpc = "idle"
    /\ mmem = NoMem

NoCtor == [op |-> "none", nulls |-> {}, copyValue |-> "NULL", fail |-> 0,
           pc |-> "idle", ret |-> NULL, live |-> {}, mallocs |-> 0,
           freed |-> <<>>]

NoNCall == [op |-> "none", container |-> "none", key |-> NULL,
            value |-> NULL, index |-> 0, status |-> "none"]

NoBCall == [op |-> "none", id |-> NULL, ch |-> "", status |-> "none",
            freed |-> <<>>]

BoreeIdle ==
    /\ JerriesList = NULL
    /\ JerriesHash = NULL
    /\ PhycharMultiHash = NULL
    /\ phyLists = <<>>
    /\ jerryObj = <<>>
    /\ bcall = NoBCall
    /\ bpc = "idle"
    /\ plays = 0
    /\ life = <<>>

CtorIdle == ctor = NoCtor /\ ncall = NoNCall /\ BoreeIdle

(* --------------------------- KeyValuePair.c ----------------------------- *)
\* what fails in the allocations of one addToHashTable call
HMemOutcomes == {"ok", "pair_fail", "key_fail", "node_fail"}

\* kvPair->copyValue(value), by the function the table was created with
CallCopyValue(fn, value) ==
    CASE fn = "ShallowCopy"     -> ShallowCopy(value)
      [] fn = "copyLinkListVal" -> value
      [] OTHER                  -> NULL

\* malloc of the pair, copyKey (CopyKeyString) and copyValue, in this order
createKeyValuePair(key, value, copyValue, mem) ==
    IF key = NULL \/ value = NULL \/ copyValue = "NULL" THEN NULL
    ELSE IF mem = "pair_fail" THEN NULL
    ELSE LET k == CopyKeyString(key, IF mem = "key_fail" THEN "copy_fail"
                                     ELSE "ok")
             v == CallCopyValue(copyValue, value)
         IN IF k = NULL THEN NULL
            ELSE IF v = NULL THEN NULL
            ELSE [key |-> k, value |-> v, copyValue |-> copyValue]

getValue(kvPair) ==
    IF kvPair = NULL THEN NULL
    ELSE CallCopyValue(kvPair.copyValue, kvPair.value)

\* an object a container owns: the copy of the key of a pair, the copy of
\* its value, or the pair itself
Obj(kind, key) == [kind |-> kind, of |-> key]

\* what a pair is made of
PairObjs(key) == {Obj("key", key), Obj("value", key), Obj("pair", key)}

\* destroyKeyValuePair that does not call freeKey
destroyKeyValuePair_nokey(kvPair) ==
    IF kvPair = NULL THEN <<>>
    ELSE <<Obj("value", kvPair.key), Obj("pair", kvPair.key)>>

\* the releases destroyKeyValuePair makes, in order: freeKey(key),
\* freeValue(value), free(pair)
destroyKeyValuePair(kvPair) ==
    IF kvPair = NULL THEN <<>>
    ELSE <<Obj("key", kvPair.key), Obj("value", kvPair.key),
           Obj("pair", kvPair.key)>>

\* the releases of list->freeElement on each element of the sequence, for
\* the destroyKeyValuePairhash of the bucket lists
RECURSIVE FreeElementsFrom(_, _)
FreeElementsFrom(elements, i) ==
    IF i > Len(elements) THEN <<>>
    ELSE destroyKeyValuePair(elements[i]) \o FreeElementsFrom(elements, i + 1)

FreeElements(elements) == FreeElementsFrom(elements, 1)

(* ----------------------------- HashTable.c ------------------------------ *)
RECURSIVE SumChars(_)
SumChars(chars) ==
    IF chars = <<>> THEN 0
    ELSE (IF charSigned /\ Head(chars) >= 128 THEN Head(chars) - 256
          ELSE Head(chars)) + SumChars(Tail(chars))

\* the sum of "(int) str[i]": a byte above 127 is a negative char where
\* plain char is signed
transStrToInt(element) ==
    IF element = NULL THEN -1
    ELSE SumChars(element.str)

\* the C remainder a % b for b > 0: it has the sign of a
CRem(a, b) == IF a >= 0 THEN a % b ELSE 0 - ((0 - a) % b)

\* HashIndex taking the remainder by tableSize - 1
HashIndex_short(HashTable, key) ==
    CRem(transStrToInt(key), Max(HashTable.tableSize - 1, 1))

\* "key_num = transIntoNumber(key); index = key_num % tableSize", as
\* addToHashTable, lookupInHashTable and removeFromHashTable compute it
HashIndex(HashTable, key) == CRem(transStrToInt(key), HashTable.tableSize)

InTable(HashTable, index) == index \in 0..(HashTable.tableSize - 1)

\* HashTable->table[index].  A read outside the array is undefined: it traps
\* (wild = "trap", the caller then stops) or yields the word that happens to
\* lie there, here a null pointer (wild = "null")
BucketAt(HashTable, index) ==
    IF InTable(HashTable, index) THEN HashTable.table[index] ELSE NULL

WildOutcomes == {"trap", "null"}

Traps(HashTable, index, wild) == ~InTable(HashTable, index) /\ wild = "trap"

\* the table with the list of bucket index replaced (a write through the
\* list pointer read from the array)
WithBucket(HashTable, index, bucket) ==
    IF InTable(HashTable, index)
    THEN [HashTable EXCEPT !.table[index] = bucket]
    ELSE HashTable

createHashTable(copyValue, freeValue, hashNumber) ==
    [table |-> [i \in 0..(hashNumber - 1) |->
                   createLinkedList("copyKeyValuePairs",
                                    "destroyKeyValuePairhash",
                                    "equalForInnerList")],
     tableSize |-> hashNumber,
     numberOfElements |-> 0,
     copyValue |-> copyValue,
     freeValue |-> freeValue]

NoResult == [status |-> "none", ret |-> NULL, index |-> 0, trap |-> FALSE]

addToHashTable(HashTable, key, value, n, mem, wild) ==
    IF HashTable = NULL \/ key = NULL \/ value = NULL
    THEN [NoResult EXCEPT !.status = Invalid_input]
            @@ [ht |-> HashTable, kept |-> {}]
    ELSE Only({ Only({
    LET done(st, tbl, kept) == [NoResult EXCEPT !.status = st, !.index = index]
                                  @@ [ht |-> tbl, kept |-> kept]
    IN
    IF Traps(HashTable, index, wild)
    THEN [NoResult EXCEPT !.index = index, !.trap = TRUE]
            @@ [ht |-> HashTable, kept |-> {}]
    ELSE IF searchByKeyInList(bucket, key, "ok") = NULL
    THEN Only({
         IF new_key_value_pair = NULL
         THEN done(Memory_Problem, HashTable, {})
         ELSE Only({
              IF r.status = success
              THEN done(success, WithBucket(HashTable, index, r.list),
                        PairObjs(new_key_value_pair.key))
              ELSE IF r.status = Memory_Problem
              THEN done(Memory_Problem,
                        WithBucket(HashTable, index, r.list),
                        PairObjs(new_key_value_pair.key))
              ELSE done(Invalid_input, WithBucket(HashTable, index, r.list),
                        PairObjs(new_key_value_pair.key))
              : r \in {appendNode(bucket, new_key_value_pair, n, mem)} })
         : new_key_value_pair \in
              {createKeyValuePair(key, value, HashTable.copyValue, mem)} })
    ELSE done(element_exist, HashTable, {})
    : bucket \in {BucketAt(HashTable, index)} })
    : index \in {HashIndex(HashTable, key)} })

lookupInHashTable(HashTable, key, wild) ==
    IF HashTable = NULL \/ key = NULL THEN NoResult
    ELSE
    LET index == HashIndex(HashTable, key)
        element == searchByKeyInList(BucketAt(HashTable, index), key, "ok")
    IN
    IF Traps(HashTable, index, wild)
    THEN [NoResult EXCEPT !.index = index, !.trap = TRUE]
    ELSE IF element = NULL THEN [NoResult EXCEPT !.index = index]
    ELSE [NoResult EXCEPT !.index = index, !.ret = getValue(element)]

\* removeFromHashTable that reports success and deletes nothing
removeFromHashTable_lazy(HashTable, key, wild) ==
    IF HashTable = NULL \/ key = NULL
    THEN [NoResult EXCEPT !.status = Invalid_input]
            @@ [ht |-> HashTable, freed |-> <<>>, gone |-> <<>>]
    ELSE [NoResult EXCEPT !.status = success,
                          !.index = HashIndex(HashTable, key)]
            @@ [ht |-> HashTable, freed |-> <<>>, gone |-> <<>>]

removeFromHashTable(HashTable, key, wild) ==
    IF HashTable = NULL \/ key = NULL
    THEN [NoResult EXCEPT !.status = Invalid_input]
            @@ [ht |-> HashTable, freed |-> <<>>, gone |-> <<>>]
    ELSE Only({
    IF Traps(HashTable, index, wild)
    THEN [NoResult EXCEPT !.index = index, !.trap = TRUE]
            @@ [ht |-> HashTable, freed |-> <<>>, gone |-> <<>>]
    ELSE Only({
         [NoResult EXCEPT !.status = IF r.status = no_element THEN no_element
                                     ELSE IF r.status = Invalid_input
                                     THEN Invalid_input
                                     ELSE success,
                          !.index = index]
            @@ [ht |-> WithBucket(HashTable, index, r.list),
                freed |-> FreeElements(r.freed), gone |-> r.freed]
         : r \in {deleteNode(BucketAt(HashTable, index), key)} })
    : index \in {HashIndex(HashTable, key)} })

\* destroyList on every bucket from bucket i on: the pairs passed to the
\* freeElement of the bucket lists, in order
RECURSIVE DestroyBuckets(_, _)
DestroyBuckets(HashTable, i) ==
    IF i >= HashTable.tableSize THEN <<>>
    ELSE destroyList(HashTable.table[i]) \o DestroyBuckets(HashTable, i + 1)

\* destroyList on every bucket, then free(table) and free(HashTable): the
\* releases made and the pairs destroyed.  The freed table is kept as a
\* table of empty buckets; no call is made on it any more.
destroyHashTable(HashTable) ==
    IF HashTable = NULL
    THEN [status |-> Invalid_input, ht |-> HashTable, freed |-> <<>>,
          gone |-> <<>>]
    ELSE [status |-> success,
          ht |-> [HashTable EXCEPT
                     !.table = [i \in DOMAIN HashTable.table |->
                                   createLinkedList("copyKeyValuePairs",
                                                    "destroyKeyValuePairhash",
                                                    "equalForInnerList")]],
          freed |-> FreeElements(DestroyBuckets(HashTable, 0)),
          gone |-> DestroyBuckets(HashTable, 0)]

(* ------------------ the ledger of the owned objects --------------------- *)
\* a count is kept up to this value, which no count of a correct run reaches
MaxCount == 4

\* the objects of the set are owned once more
Acquire(mem, objs) ==
    [mem EXCEPT !.live = [o \in DOMAIN mem.live |->
                             IF o \in objs THEN Min(mem.live[o] + 1, MaxCount)
                             ELSE mem.live[o]]]

\* the number of times the object occurs in the sequence
Occurrences(objs, o) == Cardinality({i \in DOMAIN objs : objs[i] = o})

\* the objects of the sequence are released, one after the other; a release
\* of an object that is not owned is a second release
Release(mem, objs) ==
    [live |-> [o \in DOMAIN mem.live |->
                  Max(mem.live[o] - Occurrences(objs, o), 0)],
     twice |-> mem.twice
                  \cup {o \in DOMAIN mem.live :
                           Occurrences(objs, o) > mem.live[o]}]

(* ---------------------- hash-table specification ----------------------- *)
\* the keys: "a" and "d", which share a bucket of a table of 3, and the two
\* bytes of a non-ASCII letter, whose sum is negative where char is signed
HKeys == {Str(<<97>>), Str(<<100>>), Str(<<195, 171>>)}

\* the values: pointers to distinct objects, copied by ShallowCopy
Val(i) == [val |-> i]
HVals == {Val(i) : i \in 1..MaxVal}

\* the pairs of each bucket as <<key, value>>, in list order
RECURSIVE DataFrom(_, _, _)
DataFrom(l, curr, fuel) ==
    IF curr = NIL \/ fuel = 0 THEN <<>>
    ELSE <<l.data[curr]>> \o DataFrom(l, l.next[curr], fuel - 1)

BucketPairs(HashTable) ==
    [i \in 0..(HashTable.tableSize - 1) |->
        LET d == DataFrom(HashTable.table[i], HashTable.table[i].head,
                          MaxNodes + 1)
        IN [j \in 1..Len(d) |-> <<d[j].key, d[j].value>>]]

\* the objects the table can own
HObjs == UNION {PairObjs(k) : k \in HKeys}

\* CreateJerryHash: createHashTable(CopyKeyString, FreeKeyString,
\* PrintKeyString, ShallowCopy, ShallowFree, PrintJerry, EqualKeyString,
\* transStrToInt, size)
HtInit ==
    /\ CtorIdle
    /\ ListIdle
    /\ PrimeIdle
    /\ MvIdle
    /\ charSigned \in BOOLEAN
    /\ ht = createHashTable("ShallowCopy", "ShallowFree", TableSize)
    /\ hcall = NoHCall
    /\ hpc = "run"
    /\ hghost = [k \in HKeys |-> NULL]
    /\ rt = NoRoundTrip
    /\ hmem = [NoMem EXCEPT !.live = [o \in HObjs |-> 0]]

\* the cell malloc returns for a new node of the bucket the key hashes to
NewCell(key) ==
    IF key = NULL THEN NIL
    ELSE FirstFree(BucketAt(ht, HashIndex(ht, key)))

\* the outcomes of reading the bucket of this key
Wild(key) ==
    IF key # NULL /\ ~InTable(ht, HashIndex(ht, key)) THEN WildOutcomes
    ELSE {"null"}

HtAdd(key, value, mem, wild) ==
    /\ hpc = "run"
    /\ (mem = "ok" /\ key # NULL /\ InTable(ht, HashIndex(ht, key)))
          => NewCell(key) # NIL
    /\ \E r \in {addToHashTable(ht, key, value, NewCell(key), mem, wild)} :
       /\ ht' = r.ht
       /\ hpc' = IF r.trap THEN "trap" ELSE "run"
       /\ hcall' = [NoHCall EXCEPT !.op = "addToHashTable", !.key = key,
                                   !.value = value, !.status = r.status,
                                   !.index = r.index, !.kept = r.kept]
       /\ hmem' = IF r.status = success THEN Acquire(hmem, r.kept) ELSE hmem
       /\ hghost' = IF r.status = success
                    THEN [hghost EXCEPT ![key] = value] ELSE hghost
       /\ rt' = IF r.status = success
                THEN [stage |-> 1, key |-> key, before |-> BucketPairs(ht)]
                ELSE NoRoundTrip
    /\ UNCHANGED <<charSigned, notHt>>

HtLookup(key, wild) ==
    /\ hpc = "run"
    /\ \E r \in {lookupInHashTable(ht, key, wild)} :
       /\ hpc' = IF r.trap THEN "trap" ELSE "run"
       /\ hcall' = [NoHCall EXCEPT !.op = "lookupInHashTable", !.key = key,
                                   !.status = IF r.ret = NULL THEN "none"
                                              ELSE "found",
                                   !.index = r.index]
    /\ UNCHANGED <<charSigned, ht, hghost, rt, hmem, notHt>>

HtRemove(key, wild) ==
    /\ hpc = "run"
    /\ \E r \in {removeFromHashTable(ht, key, wild)} :
       /\ ht' = r.ht
       /\ hpc' = IF r.trap THEN "trap" ELSE "run"
       /\ hcall' = [NoHCall EXCEPT !.op = "removeFromHashTable",
                                   !.key = key, !.status = r.status,
                                   !.index = r.index, !.freed = r.freed]
       /\ hghost' = IF r.status = success
                    THEN [hghost EXCEPT ![key] = NULL] ELSE hghost
       /\ rt' = IF rt.stage = 1 /\ rt.key = key /\ ~r.trap
                THEN [rt EXCEPT !.stage = 2]
                ELSE NoRoundTrip
       /\ hmem' = Release(hmem, r.freed)
    /\ UNCHANGED <<charSigned, notHt>>

\* destroyHashTable ends the life of the table
HtDestroy ==
    /\ hpc = "run"
    /\ \E r \in {destroyHashTable(ht)} :
       /\ ht' = r.ht
       /\ hpc' = "destroyed"
       /\ hcall' = [NoHCall EXCEPT !.op = "destroyHashTable",
                                   !.status = r.status, !.freed = r.freed]
       /\ hghost' = [k \in HKeys |-> NULL]
       /\ rt' = NoRoundTrip
       /\ hmem' = Release(hmem, r.freed)
    /\ UNCHANGED <<charSigned, notHt>>

HtNext ==
    \/ \E key \in HKeys \cup {NULL}, value \in HVals \cup {NULL} :
          \E wild \in Wild(key) : HtAdd(key, value, "ok", wild)
    \/ \E key \in HKeys, mem \in HMemOutcomes \ {"ok"} :
          \E wild \in Wild(key) : HtAdd(key, Val(1), mem, wild)
    \/ \E key \in HKeys \cup {NULL} : \E wild \in Wild(key) :
          HtLookup(key, wild)
    \/ \E key \in HKeys \cup {NULL} : \E wild \in Wild(key) :
          HtRemove(key, wild)
    \/ HtDestroy

HtSpec == HtInit /\ [][HtNext]_vars

(* ------------------------ MultiValueHashTable.c ------------------------- *)
\* the addresses of the value lists: a key has one list at most, and the
\* specification has two keys
ListIds == {1, 2}

\* the pointer to the value list at address id, as a pair's value
LPtr(id) == [lptr |-> id]

\* what fails in the allocations of one addToMultiValueHashTable call: the
\* list, the node of the value, the pair, the copy of the key, or the node
\* of the pair
MvMemOutcomes ==
    {"ok", "list_fail", "node_fail", "pair_fail", "key_fail", "bucket_fail"}

\* the outcome addToHashTable sees in a call that ends as mem says
HtMem(mem) ==
    CASE mem = "pair_fail"   -> "pair_fail"
      [] mem = "key_fail"    -> "key_fail"
      [] mem = "bucket_fail" -> "node_fail"
      [] OTHER               -> "ok"

\* the table passes copyLinkListVal and destroyList for the values of the
\* hash table and keeps the caller's functions for the value lists
createMultiValueHashTable(copyValue, freeValue, equalVal, MultiHashNumber) ==
    IF copyValue = "NULL" \/ freeValue = "NULL" \/ equalVal = "NULL" THEN NULL
    ELSE [HashTable |-> createHashTable("copyLinkListVal", "destroyList",
                                        MultiHashNumber),
          copyValue |-> copyValue,
          freeValue |-> freeValue,
          equalVal |-> equalVal]

\* a value of the list at address id, as an object the list owns
ValObj(id, value) == [kind |-> "val", of |-> id, v |-> value]

\* the values of the sequence as objects of the list at address id
ValObjs(id, values) == [i \in 1..Len(values) |-> ValObj(id, values[i])]

\* destroyKeyValuePair on a pair of the multi-value table, whose freeValue
\* is destroyList: freeKey(key); the values of the list are passed to the
\* list's freeElement and the list is freed; free(pair)
destroyKeyValuePair_list(heap, kvPair) ==
    <<Obj("key", kvPair.key)>>
       \o ValObjs(kvPair.value.lptr, destroyList(heap[kvPair.value.lptr]))
       \o <<Obj("list", kvPair.value.lptr), Obj("pair", kvPair.key)>>

\* the releases of the destruction of the pairs from the i-th on, the value
\* lists being as heap holds them
RECURSIVE DestroyPairs(_, _, _)
DestroyPairs(heap, pairs, i) ==
    IF i > Len(pairs) THEN <<>>
    ELSE destroyKeyValuePair_list(heap, pairs[i])
            \o DestroyPairs(heap, pairs, i + 1)

\* what a call gives: its status, the table and the value lists after it;
\* for an add, whether it built a list, the status of the appendNode and of
\* the addToHashTable it made, the number of destroyList calls on the list
\* it built, and what it allocated and did not release; for a removal and
\* for destroy the values passed to the freeElement of a value list, the
\* pairs destroyed, and the value lists as they were at that destruction;
\* for a removal the element searchByKeyInList returned to it
MvResult(st, trap, M, heap) ==
    [status |-> st, trap |-> trap, mv |-> M, heap |-> heap,
     built |-> FALSE, append |-> "none", insert |-> "none", destroyed |-> 0,
     kept |-> {}, gone |-> <<>>, pairs |-> <<>>, at |-> heap,
     found |-> NULL]

\* id is the address malloc gives a new value list
addToMultiValueHashTable(M, heap, key, value, id, mem, wild) ==
    IF M = NULL \/ key = NULL \/ value = NULL
    THEN MvResult(Invalid_input, FALSE, M, heap)
    ELSE Only({
    IF ValInKeyVal.trap THEN MvResult("none", TRUE, M, heap)
    ELSE IF ValInKeyVal.ret = NULL
    THEN Only({
         IF valuesLinkedList = NULL THEN MvResult(failure, FALSE, M, heap)
         ELSE Only({
         IF result.status = Memory_Problem
         THEN [MvResult(Memory_Problem, FALSE, M, heap) EXCEPT
                  !.built = TRUE, !.append = result.status, !.destroyed = 1]
         ELSE IF result.status = Invalid_input
         THEN [MvResult(Invalid_input, FALSE, M, heap) EXCEPT
                  !.built = TRUE, !.append = result.status, !.destroyed = 1]
         ELSE Only({ Only({
         IF addResult.trap THEN MvResult("none", TRUE, M, heap)
         ELSE IF addResult.status = Memory_Problem
         THEN [MvResult(Memory_Problem, FALSE, M1, heap) EXCEPT
                  !.built = TRUE, !.append = result.status,
                  !.insert = addResult.status, !.destroyed = 1,
                  !.kept = pairKept]
         ELSE IF addResult.status = Invalid_input
         THEN [MvResult(success, FALSE, M1, heap) EXCEPT
                  !.built = TRUE, !.append = result.status,
                  !.insert = addResult.status, !.destroyed = 1,
                  !.kept = pairKept]
         ELSE [MvResult(success, FALSE, M1,
                        [heap EXCEPT ![id] = result.list]) EXCEPT
                  !.built = TRUE, !.append = result.status,
                  !.insert = addResult.status,
                  !.kept = pairKept \cup {Obj("list", id), ValObj(id, value)}]
         : M1 \in {[M EXCEPT !.HashTable = addResult.ht]},
           \* the value copy of the pair is the list itself
           pairKept \in {addResult.kept \ {Obj("value", key)}} })
         : addResult \in
              {addToHashTable(M.HashTable, key, LPtr(id),
                              FirstFree(BucketAt(M.HashTable,
                                                 HashIndex(M.HashTable, key))),
                              HtMem(mem), wild)} })
         : result \in {appendNode(valuesLinkedList, value,
                                  FirstFree(valuesLinkedList),
                                  IF mem = "node_fail" THEN mem ELSE "ok")} })
         : valuesLinkedList \in
              {IF mem = "list_fail" THEN NULL
               ELSE createLinkedList(M.copyValue, M.freeValue, M.equalVal)} })
    ELSE Only({ Only({
    IF appedResult.status = Memory_Problem
    THEN [MvResult(Memory_Problem, FALSE, M, heap1) EXCEPT
             !.append = appedResult.status]
    ELSE IF appedResult.status = Invalid_input
    THEN [MvResult(Invalid_input, FALSE, M, heap1) EXCEPT
             !.append = appedResult.status]
    ELSE [MvResult(success, FALSE, M, heap1) EXCEPT
             !.append = appedResult.status,
             !.kept = {ValObj(link_to_add, value)}]
    : heap1 \in {[heap EXCEPT ![link_to_add] = appedResult.list]} })
    : link_to_add \in {ValInKeyVal.ret.lptr},
      appedResult \in {appendNode(heap[ValInKeyVal.ret.lptr], value,
                                  FirstFree(heap[ValInKeyVal.ret.lptr]),
                                  IF mem = "node_fail" THEN mem ELSE "ok")} })
    : ValInKeyVal \in {lookupInHashTable(M.HashTable, key, wild)} })

\* lookupInMultiValueHashTable that hands out another list object than the
\* one the pair of the key points to
lookupInMultiValueHashTable_copy(M, key, wild) ==
    IF M = NULL \/ key = NULL THEN NoResult
    ELSE LET r == lookupInHashTable(M.HashTable, key, wild) IN
         IF r.ret = NULL THEN r
         ELSE [r EXCEPT !.ret = LPtr(3 - r.ret.lptr)]

lookupInMultiValueHashTable(M, key, wild) ==
    IF M = NULL \/ key = NULL THEN NoResult
    ELSE lookupInHashTable(M.HashTable, key, wild)

\* removeFromMultiValueHashTable that removes the key after every deletion,
\* whatever the length of the list
removeFromMultiValueHashTable_always(M, heap, key, compareVal, wild) ==
    IF M = NULL \/ key = NULL \/ compareVal = NULL
    THEN MvResult(Invalid_input, FALSE, M, heap)
    ELSE Only({
    IF ValInKeyVal.trap THEN MvResult("none", TRUE, M, heap)
    ELSE IF ValInKeyVal.ret = NULL THEN MvResult(no_element, FALSE, M, heap)
    ELSE Only({ Only({
    IF ValueEqual = NULL
    THEN MvResult(no_element, FALSE, M, heap)
    ELSE Only({ Only({
    IF deleteResult.status = Invalid_input
    THEN [MvResult(Invalid_input, FALSE, M, heap1) EXCEPT
             !.found = ValueEqual]
    ELSE IF getLengthList(deleteResult.list) >= 0
    THEN Only({
         IF removeFromHash.trap
         THEN [MvResult("none", TRUE, M, heap1) EXCEPT !.found = ValueEqual]
         ELSE [MvResult(IF removeFromHash.status = Invalid_input
                        THEN Invalid_input ELSE success,
                        FALSE,
                        [M EXCEPT !.HashTable = removeFromHash.ht],
                        IF removeFromHash.status = success
                        THEN [heap1 EXCEPT ![valuesLinkedList] = NULL]
                        ELSE heap1) EXCEPT
                  \* list->freeElement on the value of the deleted node
                  !.gone = ValObjs(valuesLinkedList, deleteResult.freed),
                  !.pairs = removeFromHash.gone, !.at = heap1,
                  !.found = ValueEqual]
         : removeFromHash \in {removeFromHashTable(M.HashTable, key, wild)} })
    ELSE [MvResult(success, FALSE, M, heap1) EXCEPT
             !.gone = ValObjs(valuesLinkedList, deleteResult.freed),
             !.found = ValueEqual]
    : heap1 \in {[heap EXCEPT ![valuesLinkedList] = deleteResult.list]} })
    : deleteResult \in {deleteNode(heap[valuesLinkedList], compareVal)} })
    : ValueEqual \in {searchByKeyInList(heap[valuesLinkedList], compareVal,
                                        "ok")} })
    : valuesLinkedList \in {ValInKeyVal.ret.lptr} })
    : ValInKeyVal \in {lookupInHashTable(M.HashTable, key, wild)} })

\* removeFromHashTable frees the pair it deletes, and destroyKeyValuePair
\* frees the pair's value with destroyList: the value list is gone
removeFromMultiValueHashTable(M, heap, key, compareVal, wild) ==
    IF M = NULL \/ key = NULL \/ compareVal = NULL
    THEN MvResult(Invalid_input, FALSE, M, heap)
    ELSE Only({
    IF ValInKeyVal.trap THEN MvResult("none", TRUE, M, heap)
    ELSE IF ValInKeyVal.ret = NULL THEN MvResult(no_element, FALSE, M, heap)
    ELSE Only({ Only({
    IF ValueEqual = NULL
    THEN MvResult(no_element, FALSE, M, heap)
    ELSE Only({ Only({
    IF deleteResult.status = Invalid_input
    THEN [MvResult(Invalid_input, FALSE, M, heap1) EXCEPT
             !.found = ValueEqual]
    ELSE IF getLengthList(deleteResult.list) = 0
    THEN Only({
         IF removeFromHash.trap
         THEN [MvResult("none", TRUE, M, heap1) EXCEPT !.found = ValueEqual]
         ELSE [MvResult(IF removeFromHash.status = Invalid_input
                        THEN Invalid_input ELSE success,
                        FALSE,
                        [M EXCEPT !.HashTable = removeFromHash.ht],
                        IF removeFromHash.status = success
                        THEN [heap1 EXCEPT ![valuesLinkedList] = NULL]
                        ELSE heap1) EXCEPT
                  \* list->freeElement on the value of the deleted node
                  !.gone = ValObjs(valuesLinkedList, deleteResult.freed),
                  !.pairs = removeFromHash.gone, !.at = heap1,
                  !.found = ValueEqual]
         : removeFromHash \in {removeFromHashTable(M.HashTable, key, wild)} })
    ELSE [MvResult(success, FALSE, M, heap1) EXCEPT
             !.gone = ValObjs(valuesLinkedList, deleteResult.freed),
             !.found = ValueEqual]
    : heap1 \in {[heap EXCEPT ![valuesLinkedList] = deleteResult.list]} })
    : deleteResult \in {deleteNode(heap[valuesLinkedList], compareVal)} })
    : ValueEqual \in {searchByKeyInList(heap[valuesLinkedList], compareVal,
                                        "ok")} })
    : valuesLinkedList \in {ValInKeyVal.ret.lptr} })
    : ValInKeyVal \in {lookupInHashTable(M.HashTable, key, wild)} })

\* destroyHashTable on the underlying table, whose pairs free their value
\* lists with destroyList, then free(MultiHashTable); the freed table is kept
\* as a table of empty buckets and no value list is left
destroyMultiValueHashTable(M, heap) ==
    IF M = NULL
    THEN MvResult(Invalid_input, FALSE, M, heap)
    ELSE LET d == destroyHashTable(M.HashTable) IN
         [MvResult(success, FALSE, [M EXCEPT !.HashTable = d.ht],
                   [id \in DOMAIN heap |-> NULL]) EXCEPT
             !.pairs = d.gone, !.at = heap]

(* ----------------- multi-value hash-table specification ----------------- *)
\* the keys: "a", and the two bytes of a non-ASCII letter, whose sum is
\* negative where char is signed and falls into the bucket of "a" in a
\* table of 3 where it is not
MvKeys == {Str(<<97>>), Str(<<195, 172>>)}

\* the values: objects with an ID string, which EqualJerryInLink compares
Jerry(i) == [ID |-> Str(<<48 + i>>)]
Jerries == {Jerry(1), Jerry(2)}

\* the objects the table can own
MvObjs ==
    {Obj(kind, k) : kind \in {"key", "pair"}, k \in MvKeys}
       \cup {Obj("list", id) : id \in ListIds}
       \cup {ValObj(id, j) : id \in ListIds, j \in Jerries}

\* createMultiValueHashTable(CopyKeyString, FreeKeyString,
\* PrintKeyStringPhyMulti, ShallowCopy, ShallowFree, PrintJerry,
\* EqualKeyString, EqualJerryInLink, transStrToInt, size)
MvInit ==
    /\ CtorIdle
    /\ ListIdle
    /\ PrimeIdle
    /\ HtUnused
    /\ charSigned \in BOOLEAN
    /\ mv = createMultiValueHashTable("ShallowCopy", "ShallowFree",
                                      "EqualJerryInLink", TableSize)
    /\ mheap = [id \in ListIds |-> NULL]
    /\ mmem = [NoMem EXCEPT !.live = [o \in MvObjs |-> 0]]
    /\ mcall = NoMCall
    /\ mpc = "run"

\* the outcomes of reading the bucket of this key in the multi-value table
MvWild(key) ==
    IF key # NULL /\ ~InTable(mv.HashTable, HashIndex(mv.HashTable, key))
    THEN WildOutcomes
    ELSE {"null"}

\* the address of the list malloc returns next
NewList ==
    IF \A id \in ListIds : mheap[id] # NULL THEN 0
    ELSE CHOOSE id \in ListIds :
             mheap[id] = NULL /\ \A j \in ListIds : mheap[j] = NULL => id <= j

\* the multi-value table and its value lists with the nodes of every list
\* relocated: the state keeps one layout of the nodes for each linked
\* structure
RelocateTable(M) ==
    [M EXCEPT !.HashTable.table =
                 [i \in DOMAIN @ |-> Relocate(M.HashTable.table[i])]]

RelocateHeap(heap) == [id \in DOMAIN heap |-> Relocate(heap[id])]

\* the value list of the key, NULL if the table does not hold the key
ValuesOf(M, heap, key) ==
    LET r == lookupInMultiValueHashTable(M, key, "null").ret IN
    IF r = NULL THEN NULL ELSE heap[r.lptr]

MvAdd(key, value, mem, wild) ==
    /\ mpc = "run"
    /\ NewList # 0
    /\ (mem = "ok" /\ key # NULL /\ ValuesOf(mv, mheap, key) # NULL)
          => ValuesOf(mv, mheap, key).count_elements < MaxValues
    /\ \E r \in {addToMultiValueHashTable(mv, mheap, key, value, NewList,
                                          mem, wild)} :
       /\ mv' = RelocateTable(r.mv)
       /\ mheap' = RelocateHeap(r.heap)
       /\ mpc' = IF r.trap THEN "trap" ELSE "run"
       /\ mcall' = [NoMCall EXCEPT !.op = "addToMultiValueHashTable",
                                   !.key = key, !.value = value,
                                   !.status = r.status, !.built = r.built,
                                   !.append = r.append, !.insert = r.insert,
                                   !.destroyed = r.destroyed]
       /\ mmem' = IF r.status = success THEN Acquire(mmem, r.kept) ELSE mmem
    /\ UNCHANGED <<charSigned, notMv>>

MvLookup(key, wild) ==
    /\ mpc = "run"
    /\ \E r \in {lookupInMultiValueHashTable(mv, key, wild)} :
       /\ mpc' = IF r.trap THEN "trap" ELSE "run"
       /\ mcall' = [NoMCall EXCEPT !.op = "lookupInMultiValueHashTable",
                                   !.key = key,
                                   !.status = IF r.ret = NULL THEN "none"
                                              ELSE "found"]
    /\ UNCHANGED <<mv, mheap, mmem, charSigned, notMv>>

MvRemove(key, compareVal, wild) ==
    /\ mpc = "run"
    /\ \E r \in {removeFromMultiValueHashTable(mv, mheap, key, compareVal,
                                               wild)} :
       /\ mv' = RelocateTable(r.mv)
       /\ mheap' = RelocateHeap(r.heap)
       /\ mpc' = IF r.trap THEN "trap" ELSE "run"
       /\ \E freed \in {r.gone \o DestroyPairs(r.at, r.pairs, 1)} :
          /\ mcall' = [NoMCall EXCEPT
                          !.op = "removeFromMultiValueHashTable",
                          !.key = key, !.value = compareVal,
                          !.status = r.status, !.freed = freed]
          /\ mmem' = Release(mmem, freed)
    /\ UNCHANGED <<charSigned, notMv>>

\* destroyMultiValueHashTable ends the life of the table
MvDestroy ==
    /\ mpc = "run"
    /\ \E r \in {destroyMultiValueHashTable(mv, mheap)} :
       /\ mv' = r.mv
       /\ mheap' = r.heap
       /\ mpc' = "destroyed"
       /\ \E freed \in {r.gone \o DestroyPairs(r.at, r.pairs, 1)} :
          /\ mcall' = [NoMCall EXCEPT !.op = "destroyMultiValueHashTable",
                                      !.status = r.status, !.freed = freed]
          /\ mmem' = Release(mmem, freed)
    /\ UNCHANGED <<charSigned, notMv>>

MvNext ==
    \/ \E key \in MvKeys \cup {NULL}, value \in Jerries \cup {NULL} :
          \E wild \in MvWild(key) : MvAdd(key, value, "ok", wild)
    \/ \E key \in MvKeys, mem \in MvMemOutcomes \ {"ok"} :
          \E wild \in MvWild(key) : MvAdd(key, Jerry(1), mem, wild)
    \/ \E key \in MvKeys \cup {NULL} : \E wild \in MvWild(key) :
          MvLookup(key, wild)
    \/ \E key \in MvKeys \cup {NULL},
          compareVal \in {j.ID : j \in Jerries} \cup {Jerry(0).ID, NULL} :
          \E wild \in MvWild(key) : MvRemove(key, compareVal, wild)
    \/ MvDestroy

MvSpec == MvInit /\ [][MvNext]_vars

(* ------------- a multi-value table that copies its values --------------- *)
\* the values: strings, which CopyKeyString copies into a new allocation
Texts == {Str(<<118>>), Str(<<119>>)}

\* whether a call of the copy function allocates the element it returns
Allocates(copyFunc) == copyFunc = "CopyKeyString"

\* the number of values the value lists hold
StoredValues(heap) ==
    LET held(id) == IF heap[id] = NULL THEN 0 ELSE getLengthList(heap[id])
    IN held(1) + held(2)

\* the releases that are calls of list->freeElement on a value
ValueReleases(freed) == Cardinality({i \in DOMAIN freed : freed[i].kind = "val"})

\* the copies copyValue returned that are in no value list and were not
\* passed to freeValue, after a call that obtained made copies and released
\* freed values
Unowned(mem, made, heap, freed) ==
    [copies |-> Min(mem.copies + made
                       - (StoredValues(heap) - StoredValues(mheap)) - freed,
                    MaxCount)]

\* createMultiValueHashTable(CopyKeyString, FreeKeyString, PrintKeyString,
\* CopyKeyString, FreeKeyString, PrintKeyString, EqualKeyString,
\* EqualKeyString, transStrToInt, size)
CopyInit ==
    /\ CtorIdle
    /\ ListIdle
    /\ PrimeIdle
    /\ HtUnused
    /\ charSigned \in BOOLEAN
    /\ mv = createMultiValueHashTable("CopyKeyString", "FreeKeyString",
                                      "EqualKeyString", TableSize)
    /\ mheap = [id \in ListIds |-> NULL]
    /\ mmem = [copies |-> 0]
    /\ mcall = NoMCall
    /\ mpc = "run"

\* createNode obtains a copy for the node it makes; destroyList on the list
\* the call built passes the value of its node to freeValue
CopyAdd(key, value, mem, wild) ==
    /\ mpc = "run"
    /\ NewList # 0
    /\ (mem = "ok" /\ ValuesOf(mv, mheap, key) # NULL)
          => ValuesOf(mv, mheap, key).count_elements < MaxValues
    /\ \E r \in {addToMultiValueHashTable(mv, mheap, key, value, NewList,
                                          mem, wild)} :
       /\ mv' = RelocateTable(r.mv)
       /\ mheap' = RelocateHeap(r.heap)
       /\ mpc' = IF r.trap THEN "trap" ELSE "run"
       /\ mcall' = [NoMCall EXCEPT !.op = "addToMultiValueHashTable",
                                   !.key = key, !.value = value,
                                   !.status = r.status, !.built = r.built,
                                   !.append = r.append, !.insert = r.insert,
                                   !.destroyed = r.destroyed]
       /\ mmem' = Unowned(mmem,
                          IF Allocates(mv.copyValue) /\ r.append = success
                          THEN 1 ELSE 0,
                          r.heap,
                          IF r.append = success THEN r.destroyed ELSE 0)
    /\ UNCHANGED <<charSigned, notMv>>

\* searchByKeyInList obtains a copy of the value it finds; deleteNode and
\* the destruction of the pair pass the values they delete to freeValue
CopyRemove(key, compareVal, wild) ==
    /\ mpc = "run"
    /\ \E r \in {removeFromMultiValueHashTable(mv, mheap, key, compareVal,
                                               wild)} :
       /\ mv' = RelocateTable(r.mv)
       /\ mheap' = RelocateHeap(r.heap)
       /\ mpc' = IF r.trap THEN "trap" ELSE "run"
       /\ \E freed \in {r.gone \o DestroyPairs(r.at, r.pairs, 1)} :
          /\ mcall' = [NoMCall EXCEPT
                          !.op = "removeFromMultiValueHashTable",
                          !.key = key, !.value = compareVal,
                          !.status = r.status, !.freed = freed]
          /\ mmem' = Unowned(mmem,
                             IF Allocates(mv.copyValue) /\ r.found # NULL
                             THEN 1 ELSE 0,
                             r.heap, ValueReleases(freed))
    /\ UNCHANGED <<charSigned, notMv>>

CopyNext ==
    \/ \E key \in MvKeys, value \in Texts,
          mem \in {"ok", "node_fail", "bucket_fail"} :
          \E wild \in MvWild(key) : CopyAdd(key, value, mem, wild)
    \/ \E key \in MvKeys, compareVal \in Texts :
          \E wild \in MvWild(key) : CopyRemove(key, compareVal, wild)

CopySpec == CopyInit /\ [][CopyNext]_vars

(* ------------------------- list specification --------------------------- *)
\* the elements e1, e2, ... of the list specification: the strings "a", "b", ...
Elem(i) == Str(<<96 + i>>)
Elems == {Elem(i) : i \in 1..MaxElem}

\* the next update of the scenario, as <<operation, element>>
Script == <<
    <<"appendNode", Elem(1)>>, <<"appendNode", Elem(2)>>,
    <<"appendNode", Elem(3)>>, <<"deleteNode", Elem(2)>>,
    <<"appendNode", Elem(4)>> >>

ScenStep(op, e, status) ==
    IF scen >= 0 /\ scen < Len(Script) /\ status = success
       /\ Script[scen + 1] = <<op, e>>
    THEN scen + 1
    ELSE -1

\* the sequence with its first element equal to e removed
RECURSIVE RemoveFirst(_, _)
RemoveFirst(s, e) ==
    IF s = <<>> THEN <<>>
    ELSE IF Head(s) = e THEN Tail(s)
    ELSE <<Head(s)>> \o RemoveFirst(Tail(s), e)

ListInit ==
    /\ CtorIdle
    /\ PrimeIdle
    /\ HtIdle
    /\ MvIdle
    /\ lst = createLinkedList("CopyKeyString", "FreeKeyString", "EqualKeyString")
    /\ lcall = NoCall
    /\ ghost = <<>>
    /\ scen = 0

\* appendNode(lst, e) where the allocations end as mem says
ListAppend(e, mem) ==
    /\ mem = "ok" => lst.count_elements < MaxLen
    /\ \E r \in {appendNode(lst, e, FirstFree(lst), mem)} :
       /\ lst' = r.list
       /\ lcall' = [NoCall EXCEPT !.op = "appendNode", !.status = r.status]
       /\ ghost' = IF r.status = success THEN Append(ghost, e) ELSE ghost
       /\ scen' = ScenStep("appendNode", e, r.status)
       /\ UNCHANGED notList

\* appendNode(NULL, e): the caller passes a null list; lst is not touched
ListAppendNull(e, mem) ==
    \E r \in {appendNode(NULL, e, NIL, mem)} :
       /\ lcall' = [NoCall EXCEPT !.op = "appendNode", !.status = r.status,
                                  !.pos = "null list"]
       /\ scen' = ScenStep("appendNode", e, r.status)
       /\ UNCHANGED <<lst, ghost>>
       /\ UNCHANGED notList

\* where the node deleteNode(l, e) unlinks stands in l
DeletePos(l, e) ==
    LET curr == FindNode(l, l.head, e, MaxNodes + 1) IN
    IF e = NULL \/ curr = NIL THEN "none"
    ELSE IF curr = l.head /\ curr = l.tail THEN "only"
    ELSE IF curr = l.head THEN "head"
    ELSE IF curr = l.tail THEN "tail"
    ELSE "middle"

ListDelete(e) ==
    \E r \in {deleteNode(lst, e)} :
       /\ lst' = r.list
       /\ lcall' = [NoCall EXCEPT !.op = "deleteNode", !.status = r.status,
                                  !.pos = DeletePos(lst, e)]
       /\ ghost' = IF r.status = success THEN RemoveFirst(ghost, e) ELSE ghost
       /\ scen' = ScenStep("deleteNode", e, r.status)
       /\ UNCHANGED notList

ListGet(i, mem) ==
    /\ lcall' = [NoCall EXCEPT
                    !.op = "getDataByIndex",
                    !.status = IF getDataByIndex(lst, i, mem) = NULL
                               THEN "none" ELSE "found"]
    /\ UNCHANGED <<lst, ghost, scen>>
    /\ UNCHANGED notList

ListSearch(e, mem) ==
    /\ lcall' = [NoCall EXCEPT
                    !.op = "searchByKeyInList",
                    !.status = IF searchByKeyInList(lst, e, mem) = NULL
                               THEN "none" ELSE "found"]
    /\ UNCHANGED <<lst, ghost, scen>>
    /\ UNCHANGED notList

ListNext ==
    \/ \E e \in Elems \cup {NULL}, mem \in MemOutcomes : ListAppend(e, mem)
    \/ \E e \in Elems \cup {NULL}, mem \in MemOutcomes :
           ListAppendNull(e, mem)
    \/ \E e \in Elems \cup {NULL} : ListDelete(e)
    \/ \E i \in 0..(MaxLen + 1), mem \in {"ok", "copy_fail"} : ListGet(i, mem)
    \/ \E e \in Elems \cup {NULL}, mem \in {"ok", "copy_fail"} :
           ListSearch(e, mem)

ListSpec == ListInit /\ [][ListNext]_vars

(* ----------------- table-size policy (JerryBoreeMain.c) ------------------ *)
\* the largest int, and the largest i with i * i <= INT_MAX
INT_MAX == 2147483647
SqrtIntMax == 46340

\* "i <= sqrt(number)" for ints i >= 1 and number >= 0: the double sqrt is
\* exact enough that this is i * i <= number, written without a product
\* that leaves the ints
LeqSqrt(i, number) == i <= number \div i

\* CheckPrimeNumber with "i < sqrt(number)" as the loop condition
CheckPrimeNumber_lt(number) ==
    IF number <= 1 THEN FALSE
    ELSE IF number = 2 THEN TRUE
    ELSE \A i \in 2..Min(number, SqrtIntMax) :
            i <= (number - 1) \div i => number % i # 0

\* the loop returns false at the first i in 2..sqrt(number) dividing number
CheckPrimeNumber(number) ==
    IF number <= 1 THEN FALSE
    ELSE IF number = 2 THEN TRUE
    ELSE \A i \in 2..Min(number, SqrtIntMax) :
            LeqSqrt(i, number) => number % i # 0

PrimeInputs == ((0 - MaxNeg)..MaxN) \cup {INT_MAX - 1, INT_MAX}

PrimeInit ==
    /\ CtorIdle
    /\ ListIdle
    /\ HtIdle
    /\ MvIdle
    /\ fbp_number \in PrimeInputs
    /\ fbp_i = 0
    /\ fbp_isPrime = FALSE
    /\ fbp_pc = "start"
    /\ fbp_ret = 0

\* "if (number < 13) return 13; int i = number; bool isPrime = false;"
FBP_Start ==
    /\ fbp_pc = "start"
    /\ IF fbp_number < 13
       THEN /\ fbp_ret' = 13
            /\ fbp_pc' = "done"
            /\ UNCHANGED <<fbp_i, fbp_isPrime>>
       ELSE /\ fbp_i' = fbp_number
            /\ fbp_isPrime' = FALSE
            /\ fbp_pc' = "loop"
            /\ UNCHANGED fbp_ret
    /\ UNCHANGED <<fbp_number, notPrime>>

\* one iteration "i++; isPrime = CheckPrimeNumber(i);" of the while loop
FBP_Loop ==
    /\ fbp_pc = "loop"
    /\ ~fbp_isPrime
    /\ fbp_i < INT_MAX
    /\ fbp_i >= 0
    /\ fbp_i' = fbp_i + 1
    /\ fbp_isPrime' = CheckPrimeNumber(fbp_i + 1)
    /\ UNCHANGED <<fbp_number, fbp_pc, fbp_ret, notPrime>>

\* "i++" at i = INT_MAX is a signed overflow, which is undefined: the build
\* either traps or wraps i around to INT_MIN
FBP_Overflow ==
    /\ fbp_pc = "loop"
    /\ ~fbp_isPrime
    /\ fbp_i = INT_MAX
    /\ \/ /\ fbp_pc' = "trap"
          /\ UNCHANGED <<fbp_i, fbp_isPrime>>
       \/ /\ fbp_i' = (0 - INT_MAX) - 1
          /\ fbp_isPrime' = CheckPrimeNumber((0 - INT_MAX) - 1)
          /\ UNCHANGED fbp_pc
    /\ UNCHANGED <<fbp_number, fbp_ret, notPrime>>

\* the iterations of the while loop from a negative i up to i = 0, taken as
\* one step: CheckPrimeNumber is false of each of these numbers
FBP_LoopNegative ==
    /\ fbp_pc = "loop"
    /\ ~fbp_isPrime
    /\ fbp_i < 0
    /\ fbp_i' = 0
    /\ fbp_isPrime' = CheckPrimeNumber(0)
    /\ UNCHANGED <<fbp_number, fbp_pc, fbp_ret, notPrime>>

\* "return i;" once the loop condition !isPrime fails
FBP_Return ==
    /\ fbp_pc = "loop"
    /\ fbp_isPrime
    /\ fbp_ret' = fbp_i
    /\ fbp_pc' = "done"
    /\ UNCHANGED <<fbp_number, fbp_i, fbp_isPrime, notPrime>>

PrimeNext ==
    \/ FBP_Start
    \/ FBP_Loop
    \/ FBP_Overflow
    \/ FBP_LoopNegative
    \/ FBP_Return

PrimeSpec == PrimeInit /\ [][PrimeNext]_vars

(* ---------------- the constructors and their allocations ---------------- *)
\* Block n is what the n-th malloc of a run returns; fail is the number of
\* the malloc that returns NULL (0: none does) and first the number the next
\* malloc will have.  A constructor gives the pointer it returns, the blocks
\* it allocated and has not freed, the number of mallocs it made and the
\* blocks it passed to free or to the caller's free function, in order.
Made(ret, live, mallocs) ==
    [ret |-> ret, live |-> live, mallocs |-> mallocs, freed |-> <<>>]

\* the result m of a constructor that freed these blocks on its way out
Freeing(m, blocks) == [m EXCEPT !.freed = blocks]

\* the blocks of a set, in increasing order
RECURSIVE BlockSeq(_)
BlockSeq(blocks) ==
    IF blocks = {} THEN <<>>
    ELSE LET b == CHOOSE x \in blocks : \A y \in blocks : x <= y
         IN <<b>> \o BlockSeq(blocks \ {b})

CopyKeyString_mem(element, fail, first) ==
    IF element = NULL THEN Made(NULL, {}, 0)
    ELSE IF fail = first THEN Made(NULL, {}, 1)
    ELSE Made(element, {first}, 1)

\* copyKey(key), copyValue(value) by the function passed
CallCopy_mem(fn, element, fail, first) ==
    CASE fn = "CopyKeyString" -> CopyKeyString_mem(element, fail, first)
      [] fn = "ShallowCopy"   -> Made(ShallowCopy(element), {}, 0)
      [] OTHER                -> Made(NULL, {}, 0)

\* the blocks freeKey(element) frees: FreeKeyString frees the string,
\* ShallowFree nothing
CallFree_mem(fn, blocks) == IF fn = "FreeKeyString" THEN blocks ELSE {}

\* createLinkedList that does not look at printFunc
createLinkedList_mem_noprint(copyFunc, freeFunc, printFunc, equalFunc, fail, first) ==
    IF copyFunc = "NULL" \/ freeFunc = "NULL" \/ equalFunc = "NULL"
    THEN Made(NULL, {}, 0)
    ELSE IF fail = first THEN Made(NULL, {}, 1)
    ELSE Made(createLinkedList(copyFunc, freeFunc, equalFunc), {first}, 1)

createLinkedList_mem(copyFunc, freeFunc, printFunc, equalFunc, fail, first) ==
    IF copyFunc = "NULL" \/ freeFunc = "NULL" \/ printFunc = "NULL"
       \/ equalFunc = "NULL"
    THEN Made(NULL, {}, 0)
    ELSE IF fail = first THEN Made(NULL, {}, 1)
    ELSE Made(createLinkedList(copyFunc, freeFunc, equalFunc), {first}, 1)

\* createKeyValuePair that forgets the key copy when the value copy fails
createKeyValuePair_mem_nofree(key, value, copyKey, freeKey, printKey, copyValue, freeValue, printValue, equalKey, fail, first) ==
    IF key = NULL \/ value = NULL \/ copyKey = "NULL" \/ freeKey = "NULL"
       \/ printKey = "NULL" \/ equalKey = "NULL" \/ copyValue = "NULL"
       \/ freeValue = "NULL" \/ printValue = "NULL"
    THEN Made(NULL, {}, 0)
    ELSE IF fail = first THEN Made(NULL, {}, 1)
    ELSE LET k == CallCopy_mem(copyKey, key, fail, first + 1)
             v == CallCopy_mem(copyValue, value, fail, first + 1 + k.mallocs)
         IN IF k.ret = NULL
            THEN Freeing(Made(NULL, {}, 1 + k.mallocs), <<first>>)
            ELSE IF v.ret = NULL
            THEN Freeing(Made(NULL, k.live, 1 + k.mallocs + v.mallocs),
                         <<first>>)
            ELSE Made([key |-> k.ret, value |-> v.ret, copyValue |-> copyValue],
                      {first} \cup k.live \cup v.live,
                      1 + k.mallocs + v.mallocs)

\* malloc of the pair, copyKey(key), copyValue(value); a failed copy is
\* answered with free of what was made so far
createKeyValuePair_mem(key, value, copyKey, freeKey, printKey, copyValue, freeValue, printValue, equalKey, fail, first) ==
    IF key = NULL \/ value = NULL \/ copyKey = "NULL" \/ freeKey = "NULL"
       \/ printKey = "NULL" \/ equalKey = "NULL" \/ copyValue = "NULL"
       \/ freeValue = "NULL" \/ printValue = "NULL"
    THEN Made(NULL, {}, 0)
    ELSE IF fail = first THEN Made(NULL, {}, 1)
    ELSE LET k == CallCopy_mem(copyKey, key, fail, first + 1)
             v == CallCopy_mem(copyValue, value, fail, first + 1 + k.mallocs)
         IN IF k.ret = NULL
            THEN Freeing(Made(NULL, {}, 1 + k.mallocs), <<first>>)
            ELSE IF v.ret = NULL
            THEN Freeing(Made(NULL, k.live \ CallFree_mem(freeKey, k.live),
                              1 + k.mallocs + v.mallocs),
                         BlockSeq(CallFree_mem(freeKey, k.live)) \o <<first>>)
            ELSE Made([key |-> k.ret, value |-> v.ret, copyValue |-> copyValue],
                      {first} \cup k.live \cup v.live,
                      1 + k.mallocs + v.mallocs)

\* "for (int i = 0; i < tableSize; i++) table[i] = createLinkedList(...)"
\* from bucket i on; lists holds the lists of the buckets before i
RECURSIVE CreateBuckets(_, _, _, _, _)
CreateBuckets(i, hashNumber, fail, first, lists) ==
    IF i >= hashNumber THEN [ok |-> TRUE, lists |-> lists, mallocs |-> i]
    ELSE LET l == createLinkedList_mem("copyKeyValuePairs",
                                       "destroyKeyValuePairhash",
                                       "PrintKeyValPair", "equalForInnerList",
                                       fail, first + i)
         IN IF l.ret = NULL
            THEN [ok |-> FALSE, lists |-> lists, mallocs |-> i + l.mallocs]
            ELSE CreateBuckets(i + 1, hashNumber, fail, first,
                               lists \cup l.live)

\* malloc of the struct, malloc of the bucket array, then the bucket lists;
\* a failed bucket list is answered with free(table) and free(HashTable)
createHashTable_mem(copyKey, freeKey, printKey, copyValue, freeValue, printValue, equalKey, transformIntoNumber, hashNumber, fail, first) ==
    IF copyKey = "NULL" \/ freeKey = "NULL" \/ printKey = "NULL"
       \/ equalKey = "NULL" \/ transformIntoNumber = "NULL"
       \/ copyValue = "NULL" \/ freeValue = "NULL" \/ printValue = "NULL"
    THEN Made(NULL, {}, 0)
    ELSE IF fail = first THEN Made(NULL, {}, 1)
    ELSE IF fail = first + 1 THEN Freeing(Made(NULL, {}, 2), <<first>>)
    ELSE LET b == CreateBuckets(0, hashNumber, fail, first + 2, {}) IN
         IF ~b.ok THEN Freeing(Made(NULL, b.lists, 2 + b.mallocs),
                               <<first + 1, first>>)
         ELSE Made(createHashTable(copyValue, freeValue, hashNumber),
                   {first, first + 1} \cup b.lists, 2 + b.mallocs)

createMultiValueHashTable_mem(copyKey, freeKey, printKey, copyValue, freeValue, printValue, equalKey, equalVal, transformIntoNumber, MultiHashNumber, fail, first) ==
    IF copyKey = "NULL" \/ freeKey = "NULL" \/ printKey = "NULL"
       \/ equalKey = "NULL" \/ transformIntoNumber = "NULL"
       \/ copyValue = "NULL" \/ freeValue = "NULL" \/ printValue = "NULL"
       \/ equalVal = "NULL"
    THEN Made(NULL, {}, 0)
    ELSE IF fail = first THEN Made(NULL, {}, 1)
    ELSE LET h == createHashTable_mem(copyKey, freeKey, printKey,
                                      "copyLinkListVal", "destroyList",
                                      "displayList", equalKey,
                                      transformIntoNumber, MultiHashNumber,
                                      fail, first + 1)
         IN IF h.ret = NULL
            THEN Freeing(Made(NULL, h.live, 1 + h.mallocs),
                         h.freed \o <<first>>)
            ELSE Made(createMultiValueHashTable(copyValue, freeValue, equalVal,
                                                MultiHashNumber),
                      {first} \cup h.live, 1 + h.mallocs)

(* ---------------------- constructor specification ----------------------- *)
\* the operation arguments of the constructors
ListArgs == {"copyFunc", "freeFunc", "printFunc", "equalFunc"}
TableArgs == {"copyKey", "freeKey", "printKey", "copyValue", "freeValue",
              "printValue", "equalKey", "transformIntoNumber"}
PairArgs == (TableArgs \ {"transformIntoNumber"}) \cup {"key", "value"}
MultiArgs == TableArgs \cup {"equalVal"}

\* the argument passed for a parameter: NULL for the names in nulls
Arg(nulls, name, fn) == IF name \in nulls THEN "NULL" ELSE fn
ArgElement(nulls, name, e) == IF name \in nulls THEN NULL ELSE e

CtorCalls(op, args, copies, mallocs) ==
    {[NoCtor EXCEPT !.op = op, !.nulls = n, !.copyValue = c, !.fail = f,
                    !.pc = "call"] :
        n \in SUBSET args, c \in copies, f \in 0..mallocs}

CtorInit ==
    /\ ListIdle
    /\ PrimeIdle
    /\ HtIdle
    /\ MvIdle
    /\ ncall = NoNCall
    /\ BoreeIdle
    /\ ctor \in CtorCalls("createLinkedList", ListArgs, {"ShallowCopy"}, 1)
           \cup CtorCalls("createKeyValuePair", PairArgs,
                          {"ShallowCopy", "CopyKeyString"}, 3)
           \cup CtorCalls("createHashTable", TableArgs, {"ShallowCopy"},
                          TableSize + 2)
           \cup CtorCalls("createMultiValueHashTable", MultiArgs,
                          {"ShallowCopy"}, TableSize + 3)

Returned(r) ==
    /\ ctor' = [ctor EXCEPT !.pc = "done", !.ret = r.ret, !.live = r.live,
                            !.mallocs = r.mallocs, !.freed = r.freed]
    /\ UNCHANGED notCtor

CallCreateLinkedList ==
    /\ ctor.pc = "call"
    /\ ctor.op = "createLinkedList"
    /\ \E r \in {createLinkedList_mem(
                     Arg(ctor.nulls, "copyFunc", ctor.copyValue),
                     Arg(ctor.nulls, "freeFunc", "ShallowFree"),
                     Arg(ctor.nulls, "printFunc", "PrintJerry"),
                     Arg(ctor.nulls, "equalFunc", "EqualJerryInLink"),
                     ctor.fail, 1)} : Returned(r)

CallCreateKeyValuePair ==
    /\ ctor.pc = "call"
    /\ ctor.op = "createKeyValuePair"
    /\ \E r \in {createKeyValuePair_mem(
                     ArgElement(ctor.nulls, "key", Str(<<97>>)),
                     ArgElement(ctor.nulls, "value", Str(<<98>>)),
                     Arg(ctor.nulls, "copyKey", "CopyKeyString"),
                     Arg(ctor.nulls, "freeKey", "FreeKeyString"),
                     Arg(ctor.nulls, "printKey", "PrintKeyString"),
                     Arg(ctor.nulls, "copyValue", ctor.copyValue),
                     Arg(ctor.nulls, "freeValue", "ShallowFree"),
                     Arg(ctor.nulls, "printValue", "PrintJerry"),
                     Arg(ctor.nulls, "equalKey", "EqualKeyString"),
                     ctor.fail, 1)} : Returned(r)

CallCreateHashTable ==
    /\ ctor.pc = "call"
    /\ ctor.op = "createHashTable"
    /\ \E r \in {createHashTable_mem(
                     Arg(ctor.nulls, "copyKey", "CopyKeyString"),
                     Arg(ctor.nulls, "freeKey", "FreeKeyString"),
                     Arg(ctor.nulls, "printKey", "PrintKeyString"),
                     Arg(ctor.nulls, "copyValue", ctor.copyValue),
                     Arg(ctor.nulls, "freeValue", "ShallowFree"),
                     Arg(ctor.nulls, "printValue", "PrintJerry"),
                     Arg(ctor.nulls, "equalKey", "EqualKeyString"),
                     Arg(ctor.nulls, "transformIntoNumber", "transStrToInt"),
                     TableSize, ctor.fail, 1)} : Returned(r)

CallCreateMultiValueHashTable ==
    /\ ctor.pc = "call"
    /\ ctor.op = "createMultiValueHashTable"
    /\ \E r \in {createMultiValueHashTable_mem(
                     Arg(ctor.nulls, "copyKey", "CopyKeyString"),
                     Arg(ctor.nulls, "freeKey", "FreeKeyString"),
                     Arg(ctor.nulls, "printKey", "PrintKeyStringPhyMulti"),
                     Arg(ctor.nulls, "copyValue", ctor.copyValue),
                     Arg(ctor.nulls, "freeValue", "ShallowFree"),
                     Arg(ctor.nulls, "printValue", "PrintJerry"),
                     Arg(ctor.nulls, "equalKey", "EqualKeyString"),
                     Arg(ctor.nulls, "equalVal", "EqualJerryInLink"),
                     Arg(ctor.nulls, "transformIntoNumber", "transStrToInt"),
                     TableSize, ctor.fail, 1)} : Returned(r)

CtorNext ==
    \/ CallCreateLinkedList
    \/ CallCreateKeyValuePair
    \/ CallCreateHashTable
    \/ CallCreateMultiValueHashTable

CtorSpec == CtorInit /\ [][CtorNext]_vars

\* C6: the list is the sequence its calls built: appendNode adds at the end,
\* deleteNode removes the first match from the head, getDataByIndex(i) is the
\* i-th element in insertion order, and appending e1, e2, e3, deleting e2 and
\* appending e4 gives [e1, e3, e4].
C6_ListIsSequence ==
    /\ Contents(lst) = ghost
    /\ \A i \in 1..Len(ghost) : getDataByIndex(lst, i, "ok") = ghost[i]
    /\ scen = Len(Script) => Contents(lst) = <<Elem(1), Elem(3), Elem(4)>>

C6_Witness ==
    /\ scen = Len(Script)
    /\ lcall.op = "appendNode" /\ lcall.status = success
    /\ getDataByIndex(lst, 3, "ok") = Elem(4)

\* C7: head and tail are null exactly when count_elements is 0, head.prev
\* and tail.next are null, n.next.prev = n for every node with a successor,
\* next leads from head to tail without a cycle, and count_elements is the
\* number of nodes reached.
WellFormed(l) ==
    LET w == Walk(l) IN
    /\ (l.head = NIL /\ l.tail = NIL) <=> l.count_elements = 0
    /\ l.head = NIL <=> l.tail = NIL
    /\ l.head # NIL => l.prev[l.head] = NIL
    /\ l.tail # NIL => l.next[l.tail] = NIL
    /\ \A i \in 1..Len(w) :
          l.next[w[i]] # NIL => l.prev[l.next[w[i]]] = w[i]
    /\ Len(w) <= MaxNodes
    /\ \A i, j \in 1..Len(w) : w[i] = w[j] => i = j
    /\ l.head # NIL => w[Len(w)] = l.tail
    /\ l.count_elements = Len(w)

C7_ListWellFormed == WellFormed(lst)

C7_Witness ==
    /\ lcall.op = "deleteNode" /\ lcall.status = success
    /\ lcall.pos = "middle"
    /\ lst.count_elements = 2

\* m is a prime number: no d in 2..m-1 divides it (a composite int has a
\* divisor that is at most SqrtIntMax)
IsPrime(m) ==
    /\ m > 1
    /\ \A d \in 2..Min(m - 1, SqrtIntMax) : m % d # 0

\* the smallest prime p with p >= lo, for 1 <= lo <= INT_MAX
SmallestPrimeFrom(lo) ==
    LET hi == IF lo > 2 * MaxN THEN INT_MAX ELSE 2 * lo + 2 IN
    CHOOSE p \in lo..hi :
        IsPrime(p) /\ \A q \in lo..(p - 1) : ~IsPrime(q)

C9_ReturnsPrimeAtLeast ==
    /\ fbp_pc # "trap"
    /\ fbp_pc = "done" =>
          /\ IsPrime(fbp_ret)
          /\ fbp_ret >= Max(fbp_number, 13)
          /\ fbp_number = 1 => fbp_ret = 13
          /\ fbp_number = 13 => fbp_ret = 17
          /\ fbp_number = 25 => fbp_ret = 29
    /\ \A m \in (0 - MaxNeg)..MaxN : CheckPrimeNumber(m) <=> IsPrime(m)

(* --------------------------- the hash table ----------------------------- *)
\* what lookupInHashTable returns for key k in the current table
Stored(k) == lookupInHashTable(ht, k, "null").ret

\* every pair of the table as <<bucket, position, key, value>>
PairsOf(HashTable) ==
    LET bp == BucketPairs(HashTable) IN
    UNION {{<<i, j, bp[i][j][1], bp[i][j][2]>> : j \in 1..Len(bp[i])} :
              i \in 0..(HashTable.tableSize - 1)}

\* C1, first half: a key added with success and not removed since is looked
\* up with the value it was added with
C1_Stored ==
    \A k \in HKeys : hghost[k] # NULL => Stored(k) = hghost[k]

\* C1, second half: addToHashTable(k, v2) for a key k the table holds
\* returns element_exist, leaves the table as it was, and a lookup of k
\* still returns the first value
C1_SecondAdd ==
    (/\ hcall'.op = "addToHashTable"
     /\ hcall'.key # NULL /\ hcall'.value # NULL
     /\ hghost[hcall'.key] # NULL)
    => /\ hcall'.status = element_exist
       /\ ht' = ht
       /\ lookupInHashTable(ht', hcall'.key, "null").ret = hghost[hcall'.key]

\* C1: lookupInHashTable(k) returns the value of the successful
\* addToHashTable(k, v) as long as k is not removed, and a second
\* addToHashTable(k, v2) returns element_exist and changes nothing.
C1_LookupReturnsAdded == []C1_Stored /\ [][C1_SecondAdd]_vars

C1_Witness ==
    /\ hcall.op = "addToHashTable" /\ hcall.status = element_exist
    /\ hcall.value # NULL /\ hcall.value # hghost[hcall.key]
    /\ Stored(hcall.key) = hghost[hcall.key]
    /\ hghost[hcall.key] # NULL

\* C3: no two pairs stored in the table, in the same bucket or in two
\* buckets, have keys that are equal under equalKey.
C3_KeysUnique ==
    \A p \in PairsOf(ht), q \in PairsOf(ht) :
        EqualKeyString(p[3], q[3]) => (p[1] = q[1] /\ p[2] = q[2])

C3_Witness ==
    /\ hcall.op = "addToHashTable" /\ hcall.status = element_exist
    /\ \E i \in 0..(ht.tableSize - 1) : ht.table[i].count_elements >= 2

\* C4: every pair in the list of bucket i has a key whose hash number,
\* taken modulo tableSize, is i.
C4_PairsInTheirBucket ==
    \A p \in PairsOf(ht) : transStrToInt(p[3]) % ht.tableSize = p[1]

C4_Witness ==
    /\ hcall.op = "removeFromHashTable" /\ hcall.status = success
    /\ \E p \in PairsOf(ht), q \in PairsOf(ht) : p[1] # q[1]

\* C5: after addToHashTable(k, v) returning success and then
\* removeFromHashTable(k), lookupInHashTable(k) returns NULL and the table
\* holds the pairs it held before the add, in the same order.
C5_AddRemoveRoundTrip ==
    rt.stage = 2 =>
        /\ Stored(rt.key) = NULL
        /\ BucketPairs(ht) = rt.before

C5_Witness ==
    /\ rt.stage = 2
    /\ hcall.op = "removeFromHashTable" /\ hcall.key = rt.key
    /\ hcall.status = success
    /\ PairsOf(ht) # {}

\* C10: the bucket index addToHashTable, lookupInHashTable and
\* removeFromHashTable compute for a key lies in 0..tableSize-1, also for a
\* key whose hash number is negative, and is the same in the three.
C10_IndexInRange ==
    (hcall.op # "none" /\ hcall.key # NULL) =>
        /\ hcall.index = HashIndex(ht, hcall.key)
        /\ InTable(ht, hcall.index)

(* ---------------------- the multi-value hash table ---------------------- *)
\* what lookupInMultiValueHashTable returns for key k in table M
MvStored(M, k) == lookupInMultiValueHashTable(M, k, "null").ret

\* C2, the invariant: lookupInMultiValueHashTable(k) is NULL or a list of
\* one value at least, for every key, so every pair of the underlying hash
\* table has a non-empty value list; and no value list is left without a
\* pair
C2_PresentIsNonEmpty ==
    /\ \A k \in MvKeys :
          MvStored(mv, k) # NULL =>
              /\ mheap[MvStored(mv, k).lptr] # NULL
              /\ mheap[MvStored(mv, k).lptr].count_elements >= 1
              /\ Len(Walk(mheap[MvStored(mv, k).lptr])) >= 1
    /\ \A p \in PairsOf(mv.HashTable) : MvStored(mv, p[3]) = p[4]
    /\ \A id \in ListIds :
          mheap[id] # NULL =>
              \E p \in PairsOf(mv.HashTable) : p[4] = LPtr(id)

\* C2, the removal: removeFromMultiValueHashTable returning success for a
\* key whose list held one value makes the lookup of the key return NULL
C2_RemoveSole ==
    (/\ mcall'.op = "removeFromMultiValueHashTable"
     /\ mcall'.status = success
     /\ ValuesOf(mv, mheap, mcall'.key) # NULL
     /\ ValuesOf(mv, mheap, mcall'.key).count_elements = 1)
    => MvStored(mv', mcall'.key) = NULL

\* C2: after any addToMultiValueHashTable and removeFromMultiValueHashTable
\* calls a key is in the underlying hash table exactly when its value list
\* is non-empty, lookupInMultiValueHashTable returns NULL or a list of
\* length >= 1, and removing the only value of a key makes it return NULL.
C2_MultiValueInvariant == []C2_PresentIsNonEmpty /\ [][C2_RemoveSole]_vars

C2_Witness ==
    /\ mcall.op = "removeFromMultiValueHashTable" /\ mcall.status = success
    /\ MvStored(mv, mcall.key) = NULL
    /\ \E k \in MvKeys : /\ ValuesOf(mv, mheap, k) # NULL
                         /\ ValuesOf(mv, mheap, k).count_elements = 2

(* ------------------- frame of the table operations --------------------- *)
\* the pairs as <<key, value>> of every bucket of HashTable, with the pairs
\* of key k left out
RECURSIVE Without(_, _)
Without(pairs, k) ==
    IF pairs = <<>> THEN <<>>
    ELSE IF pairs[1][1] = k THEN Without(Tail(pairs), k)
    ELSE <<pairs[1]>> \o Without(Tail(pairs), k)

BucketPairsWithout(HashTable, k) ==
    [i \in 0..(HashTable.tableSize - 1) |->
        Without(BucketPairs(HashTable)[i], k)]

\* a step removeFromHashTable(k) with k among keys: if the table held k the
\* call returns success, k is gone and every other pair stays where it was,
\* so every other key is looked up as before; if not, the call returns
\* no_element and the table is unchanged
RemoveFrame(keys) ==
    (hcall'.op = "removeFromHashTable" /\ hcall'.key \in keys) =>
        IF Stored(hcall'.key) # NULL
        THEN /\ hcall'.status = success
             /\ lookupInHashTable(ht', hcall'.key, "null").ret = NULL
             /\ BucketPairs(ht') = BucketPairsWithout(ht, hcall'.key)
             /\ \A k \in HKeys \ {hcall'.key} :
                   lookupInHashTable(ht', k, "null").ret = Stored(k)
        ELSE /\ hcall'.status = no_element
             /\ ht' = ht

\* C11: removeFromHashTable(k) on a present key removes the pair of k and
\* no other, every other key keeps its value; on an absent key it returns
\* no_element and leaves every bucket as it was.
C11_RemoveExactlyThePair == [][RemoveFrame(HKeys)]_vars

\* the same for the keys that hash to a bucket of the table
RemoveFrameInRange ==
    [][RemoveFrame({k \in HKeys : InTable(ht, HashIndex(ht, k))})]_vars

(* ----------------- contract of addToMultiValueHashTable ----------------- *)
\* the values of the key in table M, in list order; <<>> for an absent key
ValueSeq(M, heap, key) ==
    IF ValuesOf(M, heap, key) = NULL THEN <<>>
    ELSE Contents(ValuesOf(M, heap, key))

\* what a call of addToMultiValueHashTable with a key of the set leaves
MvAddContract(keys) ==
    (/\ mcall'.op = "addToMultiValueHashTable"
     /\ mcall'.key \in keys
     /\ mcall'.value # NULL) =>
        /\ (mcall'.status = success) =>
              /\ ValueSeq(mv', mheap', mcall'.key) # <<>>
              /\ ValueSeq(mv', mheap', mcall'.key)
                     [Len(ValueSeq(mv', mheap', mcall'.key))] = mcall'.value
        /\ (mcall'.status = success /\ ValuesOf(mv, mheap, mcall'.key) # NULL) =>
              /\ ValueSeq(mv', mheap', mcall'.key)
                     = Append(ValueSeq(mv, mheap, mcall'.key), mcall'.value)
              /\ mv'.HashTable = mv.HashTable
              /\ \A k \in MvKeys \ {mcall'.key} :
                    ValueSeq(mv', mheap', k) = ValueSeq(mv, mheap, k)

\* C12: addToMultiValueHashTable(k, v) on a present key appends v at the tail
\* of the list of k and changes neither the keys of the underlying hash table
\* nor the list of another key; whenever the call returns success, v is the
\* last element of the list lookupInMultiValueHashTable(k) returns
C12_AddAppendsAtTail == [][MvAddContract(MvKeys)]_vars

\* the same for the keys that hash to a bucket of the table
MvAddContractInRange ==
    [][MvAddContract({k \in MvKeys :
           InTable(mv.HashTable, HashIndex(mv.HashTable, k))})]_vars

(* -------------- contract of removeFromMultiValueHashTable --------------- *)
\* the sequence without its first element that matches v under equalVal
RECURSIVE RemoveFirstMatch(_, _, _)
RemoveFirstMatch(equalVal, s, v) ==
    IF s = <<>> THEN <<>>
    ELSE IF CallEqual(equalVal, Head(s), v) THEN Tail(s)
    ELSE <<Head(s)>> \o RemoveFirstMatch(equalVal, Tail(s), v)

\* some value of the key matches v under the table's equalVal
HasMatch(M, heap, key, v) ==
    \E i \in 1..Len(ValueSeq(M, heap, key)) :
        CallEqual(M.equalVal, ValueSeq(M, heap, key)[i], v)

MvRemoveMatch ==
    (/\ mcall'.op = "removeFromMultiValueHashTable"
     /\ mcall'.key \in MvKeys
     /\ mcall'.value # NULL
     /\ HasMatch(mv, mheap, mcall'.key, mcall'.value)) =>
        /\ mcall'.status = success
        /\ ValueSeq(mv', mheap', mcall'.key)
               = RemoveFirstMatch(mv.equalVal, ValueSeq(mv, mheap, mcall'.key),
                                  mcall'.value)
        /\ Len(ValueSeq(mv', mheap', mcall'.key))
               = Len(ValueSeq(mv, mheap, mcall'.key)) - 1
        /\ IF Len(ValueSeq(mv, mheap, mcall'.key)) > 1
           THEN /\ MvStored(mv', mcall'.key) # NULL
                /\ mv'.HashTable = mv.HashTable
           ELSE MvStored(mv', mcall'.key) = NULL
        /\ \A k \in MvKeys \ {mcall'.key} :
              ValueSeq(mv', mheap', k) = ValueSeq(mv, mheap, k)

\* the scenario: the list of "red" is [apple, rose] and apple is removed
MvRemoveScenario ==
    (/\ mcall'.op = "removeFromMultiValueHashTable"
     /\ mcall'.key \in MvKeys
     /\ mcall'.value = Jerry(1).ID
     /\ ValueSeq(mv, mheap, mcall'.key) = <<Jerry(1), Jerry(2)>>) =>
        ValueSeq(mv', mheap', mcall'.key) = <<Jerry(2)>>

\* C13: removeFromMultiValueHashTable(k, v) on a key whose list holds a match
\* removes one element, the first that matches v under equalVal, and keeps
\* the other values in their order; the key stays present with the shorter
\* list while values remain: from [apple, rose], removing apple leaves [rose]
C13_RemoveFirstMatch == [][MvRemoveMatch /\ MvRemoveScenario]_vars

\* a removal took the first of two matching values and left the second one
\* behind a value that does not match
C13_Witness ==
    /\ mcall.op = "removeFromMultiValueHashTable"
    /\ mcall.status = success
    /\ mcall.value = Jerry(1).ID
    /\ ValueSeq(mv, mheap, mcall.key) = <<Jerry(2), Jerry(1)>>

\* a removal that finds nothing to remove, for a key of the set
MvRemoveNoMatch(keys) ==
    (/\ mcall'.op = "removeFromMultiValueHashTable"
     /\ mcall'.key \in keys
     /\ mcall'.value # NULL
     /\ ~HasMatch(mv, mheap, mcall'.key, mcall'.value)) =>
        /\ mcall'.status = no_element
        /\ mv' = mv
        /\ mheap' = mheap

\* C14: removeFromMultiValueHashTable(k, v) returns no_element when k is
\* absent and when k is present with no element of its list matching v, and
\* in both cases every key and every value list of the table is unchanged
C14_RemoveNoElement == [][MvRemoveNoMatch(MvKeys)]_vars

\* the same for the keys that hash to a bucket of the table
MvRemoveNoMatchInRange ==
    [][MvRemoveNoMatch({k \in MvKeys :
           InTable(mv.HashTable, HashIndex(mv.HashTable, k))})]_vars

(* --------------------------- the constructors --------------------------- *)
\* the blocks the bucket lists of a table whose first malloc is block first
\* live in
BucketBlocks(first) == (first + 2)..(first + 1 + TableSize)

\* createLinkedList failed for a bucket of the createHashTable call
BucketListFailed ==
    /\ ctor.pc = "done"
    /\ ctor.op = "createHashTable"
    /\ ctor.nulls = {}
    /\ ctor.fail \in BucketBlocks(1)

\* C15: when createLinkedList fails for bucket i during createHashTable, the
\* lists created for the buckets 0..i-1 are destroyed, the bucket array and
\* the table struct are freed and NULL is returned: no allocation of the
\* failed call remains
C15_FailedCreateLeavesNothing ==
    BucketListFailed => (ctor.ret = NULL /\ ctor.live = {})

\* what the failed call does free: the struct and the array; it returns NULL
\* and leaves the lists of the buckets before the failed one
FailedCreateLeavesLists ==
    BucketListFailed =>
        /\ ctor.ret = NULL
        /\ ctor.live = (3..(ctor.fail - 1))

\* the operation arguments of the constructor called
OperationArgs ==
    CASE ctor.op = "createLinkedList" -> ListArgs
      [] ctor.op = "createKeyValuePair" -> PairArgs \ {"key", "value"}
      [] ctor.op = "createHashTable" -> TableArgs
      [] ctor.op = "createMultiValueHashTable" -> MultiArgs
      [] OTHER -> {}

\* C20: createLinkedList, createKeyValuePair, createHashTable and
\* createMultiValueHashTable return NULL without allocating anything
\* whenever one of their operation arguments (copy, free, print, equal,
\* hash) is null
C20_NullOperationFailsFast ==
    (ctor.pc = "done" /\ ctor.nulls \cap OperationArgs # {}) =>
        /\ ctor.ret = NULL
        /\ ctor.live = {}
        /\ ctor.mallocs = 0

\* a table constructor was called with one null operation and with every
\* malloc ready to succeed
C20_Witness ==
    /\ ctor.pc = "done"
    /\ ctor.op = "createMultiValueHashTable"
    /\ ctor.nulls = {"equalVal"}
    /\ ctor.fail = 0
    /\ ctor.ret = NULL

(* ------------------- the allocations of the hash table ------------------ *)
\* C16: whenever addToHashTable returns Memory_Problem, the table holds the
\* pairs it held before the call and every pair, key copy and value copy
\* allocated during the call has been released
C16_FailedAddReleasesAll ==
    [][(hcall'.op = "addToHashTable" /\ hcall'.status = Memory_Problem) =>
           /\ BucketPairs(ht') = BucketPairs(ht)
           /\ hcall'.kept = {}]_vars

\* what does hold of such a call: the table holds the pairs it held, and
\* nothing is left unless the node of the bucket list could not be allocated
FailedAddKeepsTable ==
    [][(hcall'.op = "addToHashTable" /\ hcall'.status = Memory_Problem) =>
           /\ BucketPairs(ht') = BucketPairs(ht)
           /\ hcall'.kept \in {{}, PairObjs(hcall'.key)}]_vars

\* the key copy and the value copy of a pair
Copies(key) == {Obj("key", key), Obj("value", key)}

\* the table holds a pair with this key
Holds(HashTable, key) == \E p \in PairsOf(HashTable) : p[3] = key

\* C18: over the successful addToHashTable and removeFromHashTable calls and
\* the destroyHashTable that ends them, every key copy and every value copy
\* made at insert is passed to freeKey / freeValue once, at its removal or at
\* destroy: none is freed twice, none is freed while it is stored, none is
\* left after destroy
C18_Owned ==
    /\ hmem.twice = {}
    /\ \A k \in HKeys : \A o \in Copies(k) :
          hmem.live[o] = IF Holds(ht, k) THEN 1 ELSE 0
    /\ hpc = "destroyed" => \A o \in HObjs : hmem.live[o] = 0

\* a call that releases: each copy it frees was owned, is freed once by the
\* call, and is the copy of a key the call takes out of the table
C18_Released ==
    \A o \in HObjs :
        /\ Occurrences(hcall'.freed, o) <= 1
        /\ Occurrences(hcall'.freed, o) = 1 =>
              /\ hmem.live[o] = 1
              /\ Holds(ht, o.of)
              /\ ~Holds(ht', o.of)
              /\ hcall'.op \in {"removeFromHashTable", "destroyHashTable"}

C18_FreedExactlyOnce == []C18_Owned /\ [][C18_Released]_vars

\* destroyHashTable ended a table that held two pairs
C18_Witness ==
    /\ hpc = "destroyed"
    /\ hcall.op = "destroyHashTable"
    /\ Len(hcall.freed) = 6
    /\ \A o \in HObjs : hmem.live[o] = 0

(* ------------- the allocations of the multi-value hash table ------------ *)
\* an add built a list for an absent key of the set and then failed to append
\* the value to it or to insert it into the underlying table
MvAddFailedAfterBuild(keys) ==
    (/\ mcall'.op = "addToMultiValueHashTable"
     /\ mcall'.key \in keys
     /\ mcall'.built
     /\ (mcall'.append # success \/ mcall'.insert # success)) =>
        /\ mcall'.destroyed = 1
        /\ MvStored(mv', mcall'.key) = NULL
        /\ mcall'.status # success

\* C17: when addToMultiValueHashTable is called for an absent key and the
\* append to the new list or the insert of (key, list) into the underlying
\* table fails, the new list is destroyed once, the key stays absent and the
\* call does not return success
C17_FailedAddDestroysList == [][MvAddFailedAfterBuild(MvKeys)]_vars

\* the same for the keys that hash to a bucket of the table
MvAddFailedAfterBuildInRange ==
    [][MvAddFailedAfterBuild({k \in MvKeys :
           InTable(mv.HashTable, HashIndex(mv.HashTable, k))})]_vars

\* the values of the list at address id, <<>> if there is no such list
ListValues(id) == IF mheap[id] = NULL THEN <<>> ELSE Contents(mheap[id])

\* the ledger agrees with the table for the key copies of the keys of the set
MvOwned(keys) ==
    /\ mmem.twice = {}
    /\ \A k \in keys :
          mmem.live[Obj("key", k)] = IF Holds(mv.HashTable, k) THEN 1 ELSE 0
    /\ \A id \in ListIds :
          /\ mmem.live[Obj("list", id)] = IF mheap[id] # NULL THEN 1 ELSE 0
          /\ \A j \in Jerries :
                mmem.live[ValObj(id, j)] = Occurrences(ListValues(id), j)
    /\ \A q \in PairsOf(mv.HashTable) : mheap[q[4].lptr] # NULL
    /\ mpc = "destroyed" =>
          /\ \A id \in ListIds : mheap[id] = NULL
          /\ \A k \in keys : mmem.live[Obj("key", k)] = 0

\* C19: over the successful addToMultiValueHashTable and
\* removeFromMultiValueHashTable calls and the destroyMultiValueHashTable
\* that ends them, every value list is destroyed once (when its last value
\* is removed or at destroy), every value of a list is passed to freeValue
\* once, every key copy is freed once, and no list is accessed after it was
\* destroyed
C19_MultiValueOwned == MvOwned(MvKeys)

\* the same for the key copies of the keys that hash to a bucket of the table
MvOwnedInRange ==
    MvOwned({k \in MvKeys : InTable(mv.HashTable, HashIndex(mv.HashTable, k))})


(* ---------------------- failures of appendNode -------------------------- *)
\* a step appendNode(lst, e) whose allocations end as mem says: a null
\* element gives Invalid_input, a failed malloc of the node or a failed copy
\* of the element gives Memory_Problem, and a call that does not return
\* success leaves the whole list, its nodes and links included, as it was
AppendFails(e, mem) ==
    ListAppend(e, mem) =>
        /\ lcall'.status = (IF e = NULL THEN Invalid_input
                            ELSE IF mem # "ok" THEN Memory_Problem
                            ELSE success)
        /\ lcall'.status # success =>
              /\ lst' = lst
              /\ Contents(lst') = Contents(lst)
              /\ lst'.head = lst.head /\ lst'.tail = lst.tail
              /\ getLengthList(lst') = getLengthList(lst)

\* a step appendNode(NULL, e): Invalid_input whatever the element is
AppendNullFails(e, mem) ==
    ListAppendNull(e, mem) => lcall'.status = Invalid_input /\ lst' = lst

\* C23: appendNode returns Memory_Problem when the node allocation or the
\* element copy fails and Invalid_input when the list or the element is
\* null, two distinct statuses; in both cases the elements, their order,
\* head, tail and count of the list are as before the call, for an empty
\* and for a non-empty list
C23_AppendFailureFrame ==
    [][/\ Invalid_input # Memory_Problem
       /\ \A e \in Elems \cup {NULL}, mem \in MemOutcomes :
             AppendFails(e, mem) /\ AppendNullFails(e, mem)]_vars

\* the copy of the element failed on a list of two elements
C23_Witness ==
    /\ lcall.op = "appendNode"
    /\ lcall.status = Memory_Problem
    /\ lcall.pos = "none"
    /\ lst.count_elements = 2

(* --------------------------- getDataByIndex ------------------------------ *)
\* C25: getDataByIndex(list, i) returns none exactly when i < 1 or
\* i > getLengthList(list) or the copy fails; otherwise it returns a copy of
\* the element of the node reached by following i - 1 next links from the
\* head, and each of the i nodes it reads on the way is a node, not null
C25_IndexedAccess ==
    \A i \in (0 - 1)..(MaxLen + 1), mem \in {"ok", "copy_fail"} :
        LET r == getDataByIndex(lst, i, mem) IN
        /\ (r = NULL) <=>
              (i < 1 \/ i > getLengthList(lst) \/ mem = "copy_fail")
        /\ (i >= 1 /\ i <= getLengthList(lst)) =>
              /\ Len(Walk(lst)) >= i
              /\ \A k \in 1..i : Walk(lst)[k] \in lst.nodes
              /\ mem = "ok" => r = lst.data[Walk(lst)[i]]

\* the last element of a list of three was asked for and found
C25_Witness ==
    /\ lcall.op = "getDataByIndex"
    /\ lcall.status = "found"
    /\ lst.count_elements = 3
    /\ getDataByIndex(lst, 3, "ok") = Elem(2)
    /\ getDataByIndex(lst, 4, "ok") = NULL

(* ---------------------- failures of createKeyValuePair ------------------- *)
\* C24: createKeyValuePair returns none and leaves nothing allocated when a
\* copy fails: after a failed copyKey the pair struct (block 1) is freed;
\* after a failed copyValue the key copy (block 2) is passed to freeKey
\* once and then the pair struct is freed
C24_FailedCopyLeavesNothing ==
    (/\ ctor.pc = "done"
     /\ ctor.op = "createKeyValuePair"
     /\ ctor.nulls = {}
     /\ ctor.fail \in 2..ctor.mallocs) =>
        /\ ctor.ret = NULL
        /\ ctor.live = {}
        /\ ctor.fail = 2 => ctor.freed = <<1>>
        /\ ctor.fail = 3 =>
              /\ ctor.freed = <<2, 1>>
              /\ Cardinality({i \in DOMAIN ctor.freed : ctor.freed[i] = 2}) = 1

\* copyValue failed after copyKey had made its copy
C24_Witness ==
    /\ ctor.pc = "done"
    /\ ctor.op = "createKeyValuePair"
    /\ ctor.nulls = {}
    /\ ctor.fail = 3
    /\ ctor.mallocs = 3
    /\ ctor.ret = NULL

(* -------------- statuses of addToMultiValueHashTable -------------------- *)
\* the call addToMultiValueHashTable(key, v) needs the allocation that mem
\* makes fail: the node and the copy of the value always, the list, the
\* pair, the key copy and the node of the bucket when the key is absent
NeedsAllocation(key, mem) ==
    \/ mem = "node_fail"
    \/ /\ mem \in {"list_fail", "pair_fail", "key_fail", "bucket_fail"}
       /\ ValuesOf(mv, mheap, key) = NULL

\* a step addToMultiValueHashTable(key, jerry 1) that returns, for a key of
\* keys and an allocation outcome of outcomes: the status is one of the
\* three documented, and Memory_Problem if a needed allocation failed
MvAddStatuses(keys, outcomes) ==
    \A key \in keys, mem \in outcomes : \A wild \in MvWild(key) :
        (MvAdd(key, Jerry(1), mem, wild) /\ mpc' = "run") =>
            /\ mcall'.status \in {success, Memory_Problem, Invalid_input}
            /\ NeedsAllocation(key, mem) => mcall'.status = Memory_Problem

\* C22: addToMultiValueHashTable returns only success, Memory_Problem or
\* Invalid_input, and Memory_Problem whenever an allocation it needs fails:
\* the per-key list, the copy of the value or its node, the key-value pair
\* of the underlying table
C22_AddReportsMemoryProblem == [][MvAddStatuses(MvKeys, MvMemOutcomes)]_vars

\* the same for the keys that hash to a bucket of the table and every
\* allocation but the one of the per-key list
MvAddStatusesAfterList ==
    [][MvAddStatuses({k \in MvKeys :
                         InTable(mv.HashTable, HashIndex(mv.HashTable, k))},
                     MvMemOutcomes \ {"list_fail"})]_vars

(* ---------------- the handle of lookupInMultiValueHashTable -------------- *)
\* the list pointers stored as the value of the pair of key k in table M
StoredLists(M, k) == {p[4] : p \in {q \in PairsOf(M.HashTable) : q[3] = k}}

\* what lookupInMultiValueHashTable(k) returns is the pointer stored in the
\* pair of k, and the list it points to is allocated
HandleIsStoredList ==
    \A k \in MvKeys :
        MvStored(mv, k) # NULL =>
            /\ StoredLists(mv, k) = {MvStored(mv, k)}
            /\ MvStored(mv, k).lptr \in ListIds
            /\ mheap[MvStored(mv, k).lptr] # NULL

\* a step lookupInMultiValueHashTable leaves the table, every value list
\* and the ledger of allocations as they were
LookupChangesNothing ==
    mcall'.op = "lookupInMultiValueHashTable" =>
        mv' = mv /\ mheap' = mheap /\ mmem' = mmem

\* a step addToMultiValueHashTable or removeFromMultiValueHashTable: the
\* handle h looked up for a key before the step is the handle looked up
\* after it while the key stays present, and the list h points to holds
\* the value added last, or no longer holds the value removed
HandleSeesUpdates ==
    \A k \in MvKeys :
        LET h == MvStored(mv, k) IN
        (h # NULL /\ MvStored(mv', k) # NULL /\ mpc' = "run") =>
            /\ MvStored(mv', k) = h
            /\ (/\ mcall'.op = "addToMultiValueHashTable"
                /\ mcall'.key = k /\ mcall'.status = success) =>
                  Contents(mheap'[h.lptr])
                     = Append(Contents(mheap[h.lptr]), mcall'.value)
            /\ (/\ mcall'.op = "removeFromMultiValueHashTable"
                /\ mcall'.key = k /\ mcall'.status = success) =>
                  Contents(mheap'[h.lptr])
                     = RemoveFirstMatch(mv.equalVal, Contents(mheap[h.lptr]),
                                        mcall'.value)
            /\ (mcall'.key # k \/ mcall'.status # success) =>
                  Contents(mheap'[h.lptr]) = Contents(mheap[h.lptr])

\* C26: lookupInMultiValueHashTable(k) returns the very list object stored
\* for k, not a copy: the call allocates nothing and changes nothing, and a
\* value added or removed by a later call is seen through a handle obtained
\* earlier while k stays present
C26_LookupReturnsLiveList ==
    /\ []HandleIsStoredList
    /\ [][LookupChangesNothing /\ HandleSeesUpdates]_vars

\* a second value was added to a key and then the first one removed: the
\* list of the key is still the list the first add made, now holding the
\* second value alone
C26_Witness ==
    /\ mcall.op = "removeFromMultiValueHashTable"
    /\ mcall.status = success
    /\ mcall.value = Jerry(1).ID
    /\ MvStored(mv, mcall.key) = LPtr(1)
    /\ Contents(mheap[1]) = <<Jerry(2)>>

(* -------------------- null-argument specification ---------------------- *)
\* A list, a hash table and a multi-value table are filled by calls with
\* proper arguments, and every operation is called with a null container,
\* key or value.
ArgInit ==
    /\ PrimeIdle
    /\ ctor = NoCtor
    /\ ncall = NoNCall
    /\ BoreeIdle
    /\ lcall = NoCall /\ ghost = <<>> /\ scen = 0
    /\ hcall = NoHCall /\ hpc = "idle" /\ hghost = <<>>
    /\ rt = NoRoundTrip /\ hmem = NoMem
    /\ mcall = NoMCall /\ mpc = "idle" /\ mmem = NoMem
    /\ charSigned \in BOOLEAN
    /\ lst = createLinkedList("CopyKeyString", "FreeKeyString", "EqualKeyString")
    /\ ht = createHashTable("ShallowCopy", "ShallowFree", TableSize)
    /\ mv = createMultiValueHashTable("ShallowCopy", "ShallowFree",
                                      "EqualJerryInLink", TableSize)
    /\ mheap = [id \in ListIds |-> NULL]

\* what a step of this specification leaves alone
argFrame == <<primeVars, ctor, lcall, ghost, scen, hcall, hpc, hghost, rt,
              hmem, mcall, mpc, mmem, charSigned, boreeVars>>

\* appendNode(lst, "a")
ArgFillList ==
    /\ lst.count_elements < MaxLen
    /\ lst' = appendNode(lst, Elem(1), FirstFree(lst), "ok").list
    /\ ncall' = NoNCall
    /\ UNCHANGED <<ht, mv, mheap, argFrame>>

\* addToHashTable(ht, "a", value)
ArgFillTable ==
    /\ ht' = addToHashTable(ht, Str(<<97>>), Val(1), NewCell(Str(<<97>>)),
                            "ok", "null").ht
    /\ ncall' = NoNCall
    /\ UNCHANGED <<lst, mv, mheap, argFrame>>

\* addToMultiValueHashTable(mv, "a", jerry 1)
ArgFillMulti ==
    /\ NewList # 0
    /\ ValuesOf(mv, mheap, Str(<<97>>)) # NULL
          => ValuesOf(mv, mheap, Str(<<97>>)).count_elements < MaxValues
    /\ \E r \in {addToMultiValueHashTable(mv, mheap, Str(<<97>>), Jerry(1),
                                          NewList, "ok", "null")} :
          /\ mv' = RelocateTable(r.mv)
          /\ mheap' = RelocateHeap(r.heap)
    /\ ncall' = NoNCall
    /\ UNCHANGED <<lst, ht, argFrame>>

\* the record of a call: whether a container was passed, the other
\* arguments, and the status returned ("none", "found" for a pointer)
Called(op, container, key, value, index, st) ==
    [op |-> op, container |-> IF container = NULL THEN "null" ELSE "set",
     key |-> key, value |-> value, index |-> index, status |-> st]

Found(ret) == IF ret = NULL THEN "none" ELSE "found"

\* the container a call leaves: the call's result if the container was
\* passed, and the container as it is if null was passed
Left(passed, after, now) == IF passed = NULL THEN now ELSE after

NullAppendNode(list, element) ==
    /\ list = NULL \/ element = NULL
    /\ \E r \in {appendNode(list, element, FirstFree(list), "ok")} :
          /\ lst' = Left(list, r.list, lst)
          /\ ncall' = Called("appendNode", list, element, NULL, 0, r.status)
    /\ UNCHANGED <<ht, mv, mheap, argFrame>>

NullDeleteNode(list, key) ==
    /\ list = NULL \/ key = NULL
    /\ \E r \in {deleteNode(list, key)} :
          /\ lst' = Left(list, r.list, lst)
          /\ ncall' = Called("deleteNode", list, key, NULL, 0, r.status)
    /\ UNCHANGED <<ht, mv, mheap, argFrame>>

NullSearchByKeyInList(list, key) ==
    /\ list = NULL \/ key = NULL
    /\ ncall' = Called("searchByKeyInList", list, key, NULL, 0,
                       Found(searchByKeyInList(list, key, "ok")))
    /\ UNCHANGED <<lst, ht, mv, mheap, argFrame>>

NullGetDataByIndex(index) ==
    /\ ncall' = Called("getDataByIndex", NULL, NULL, NULL, index,
                       Found(getDataByIndex(NULL, index, "ok")))
    /\ UNCHANGED <<lst, ht, mv, mheap, argFrame>>

NullAddToHashTable(HashTable, key, value) ==
    /\ HashTable = NULL \/ key = NULL \/ value = NULL
    /\ \E r \in {addToHashTable(HashTable, key, value, NIL, "ok", "null")} :
          /\ ht' = Left(HashTable, r.ht, ht)
          /\ ncall' = Called("addToHashTable", HashTable, key, value, 0,
                             r.status)
    /\ UNCHANGED <<lst, mv, mheap, argFrame>>

NullRemoveFromHashTable(HashTable, key) ==
    /\ HashTable = NULL \/ key = NULL
    /\ \E r \in {removeFromHashTable(HashTable, key, "null")} :
          /\ ht' = Left(HashTable, r.ht, ht)
          /\ ncall' = Called("removeFromHashTable", HashTable, key, NULL, 0,
                             r.status)
    /\ UNCHANGED <<lst, mv, mheap, argFrame>>

NullLookupInHashTable(HashTable, key) ==
    /\ HashTable = NULL \/ key = NULL
    /\ ncall' = Called("lookupInHashTable", HashTable, key, NULL, 0,
                       Found(lookupInHashTable(HashTable, key, "null").ret))
    /\ UNCHANGED <<lst, ht, mv, mheap, argFrame>>

NullAddToMultiValueHashTable(M, key, value) ==
    /\ M = NULL \/ key = NULL \/ value = NULL
    /\ \E r \in {addToMultiValueHashTable(M, mheap, key, value, 0, "ok",
                                          "null")} :
          /\ mv' = Left(M, r.mv, mv)
          /\ mheap' = r.heap
          /\ ncall' = Called("addToMultiValueHashTable", M, key, value, 0,
                             r.status)
    /\ UNCHANGED <<lst, ht, argFrame>>

NullRemoveFromMultiValueHashTable(M, key, compareVal) ==
    /\ M = NULL \/ key = NULL \/ compareVal = NULL
    /\ \E r \in {removeFromMultiValueHashTable(M, mheap, key, compareVal,
                                               "null")} :
          /\ mv' = Left(M, r.mv, mv)
          /\ mheap' = r.heap
          /\ ncall' = Called("removeFromMultiValueHashTable", M, key,
                             compareVal, 0, r.status)
    /\ UNCHANGED <<lst, ht, argFrame>>

NullLookupInMultiValueHashTable(M, key) ==
    /\ M = NULL \/ key = NULL
    /\ ncall' = Called("lookupInMultiValueHashTable", M, key, NULL, 0,
                       Found(lookupInMultiValueHashTable(M, key, "null").ret))
    /\ UNCHANGED <<lst, ht, mv, mheap, argFrame>>

ArgNext ==
    \/ ArgFillList
    \/ ArgFillTable
    \/ ArgFillMulti
    \/ \E list \in {NULL, lst}, e \in {NULL, Elem(1)} : NullAppendNode(list, e)
    \/ \E list \in {NULL, lst}, e \in {NULL, Elem(1)} : NullDeleteNode(list, e)
    \/ \E list \in {NULL, lst}, e \in {NULL, Elem(1)} :
           NullSearchByKeyInList(list, e)
    \/ \E index \in 0..2 : NullGetDataByIndex(index)
    \/ \E HashTable \in {NULL, ht}, key \in {NULL, Str(<<97>>)},
           value \in {NULL, Val(1)} :
           NullAddToHashTable(HashTable, key, value)
    \/ \E HashTable \in {NULL, ht}, key \in {NULL, Str(<<97>>)} :
           NullRemoveFromHashTable(HashTable, key)
    \/ \E HashTable \in {NULL, ht}, key \in {NULL, Str(<<97>>)} :
           NullLookupInHashTable(HashTable, key)
    \/ \E M \in {NULL, mv}, key \in {NULL, Str(<<97>>)},
           value \in {NULL, Jerry(1)} :
           NullAddToMultiValueHashTable(M, key, value)
    \/ \E M \in {NULL, mv}, key \in {NULL, Str(<<97>>)},
           compareVal \in {NULL, Jerry(1).ID} :
           NullRemoveFromMultiValueHashTable(M, key, compareVal)
    \/ \E M \in {NULL, mv}, key \in {NULL, Str(<<97>>)} :
           NullLookupInMultiValueHashTable(M, key)

ArgSpec == ArgInit /\ [][ArgNext]_vars

\* the operations that return a status, and those that return a pointer
StatusOperations ==
    {"appendNode", "deleteNode", "addToHashTable", "removeFromHashTable",
     "addToMultiValueHashTable", "removeFromMultiValueHashTable"}
PointerOperations ==
    {"searchByKeyInList", "getDataByIndex", "lookupInHashTable",
     "lookupInMultiValueHashTable"}

\* a step that is a call with a null container, key or value
NullArgumentRejected ==
    ncall'.op # "none" =>
        /\ ncall'.op \in StatusOperations => ncall'.status = Invalid_input
        /\ ncall'.op \in PointerOperations => ncall'.status = "none"
        /\ lst' = lst
        /\ ht' = ht
        /\ mv' = mv
        /\ mheap' = mheap

\* C21: appendNode, deleteNode, addToHashTable, removeFromHashTable,
\* addToMultiValueHashTable and removeFromMultiValueHashTable called with a
\* null container, key or value return Invalid_input, searchByKeyInList,
\* getDataByIndex, lookupInHashTable and lookupInMultiValueHashTable return
\* none, and no container is modified by such a call
C21_NullArgumentRejected == [][NullArgumentRejected]_vars

\* removeFromMultiValueHashTable was called with a null value on a table
\* that holds the key, next to a list and a hash table that are not empty
C21_Witness ==
    /\ ncall.op = "removeFromMultiValueHashTable"
    /\ ncall.container = "set"
    /\ ncall.key = Str(<<97>>)
    /\ ncall.value = NULL
    /\ ncall.status = Invalid_input
    /\ ValueSeq(mv, mheap, Str(<<97>>)) = <<Jerry(1), Jerry(1)>>
    /\ lst.count_elements = 2
    /\ lookupInHashTable(ht, Str(<<97>>), "null").ret = Val(1)

(* --------------------------- JerryBoreeMain.c --------------------------- *)
\* the smallest int
INT_MIN == (0 - INT_MAX) - 1

\* number of activities the list play in one run of the daycare
MaxPlays == 1

\* the IDs read from the configuration file and typed at the prompts: "1",
\* "2", and the two bytes of a non-ASCII letter, whose sum is negative where
\* char is signed
BoreeIds == {Str(<<49>>), Str(<<50>>)}
WildId == Str(<<195, 171>>)
AllIds == BoreeIds \cup {WildId}

\* the names of the physical characteristics: "a" and a non-ASCII letter
PhyA == Str(<<97>>)
PhyWild == Str(<<195, 172>>)

\* the happiness levels of the configuration file and of the prompt, which
\* sscanf and scanf read with "%d"
ConfigHappiness == {3, 40, 101}
PromptHappiness == {INT_MIN, 10, 90, INT_MAX}

\* the addresses of the value lists of PhycharMultiHash
PhyListIds == {1, 2}


\* a jerry *: the struct is known by its ID, which no function changes
JerryPtr(id) == [ID |-> id]

failure_reading == "failure_reading"

FindBiggerPrimeNumber(number) ==
    IF number < 13 THEN 13
    ELSE CHOOSE i \in (number + 1)..(2 * number) :
            /\ CheckPrimeNumber(i)
            /\ \A j \in (number + 1)..(i - 1) : ~CheckPrimeNumber(j)

\* JerryCreate: the struct holds the happiness as given and no
\* characteristic; mem tells whether its allocations succeed
JerryCreate(ID, happiness, mem) ==
    IF ID = NULL THEN [status |-> Invalid_input, jerr |-> NULL]
    ELSE IF mem = "jerry_fail" THEN [status |-> Memory_Problem, jerr |-> NULL]
    ELSE [status |-> success,
          jerr |-> [happiness |-> happiness, PhysicalChar |-> <<>>,
                    PhysicalVal |-> <<>>]]

\* JerryPrint reads the struct and returns Invalid_input for a null pointer
JerryPrint(jerr) == IF jerr = NULL THEN Invalid_input ELSE success

\* displayList
displayList(list) == IF list = NULL THEN Invalid_input ELSE success

\* what a function of the main program gives: its status, whether it
\* trapped, the three structures, the value lists and the structs after it,
\* and the Jerry structs it destroyed, each with the structure whose free
\* function destroyed it
BoreeResult(st, trap, list, hash, multi, heap, objs) ==
    [status |-> st, trap |-> trap, list |-> list, hash |-> hash,
     multi |-> multi, heap |-> heap, objs |-> objs, freed |-> <<>>]

\* the calls of a structure's free function on the elements of the sequence
\* that destroy a Jerry struct: FreeJerryInLink calls JerryDestroy,
\* ShallowFree frees nothing
JerriesFreed(freeFunc, by, elements) ==
    IF freeFunc = "FreeJerryInLink"
    THEN [k \in DOMAIN elements |-> [by |-> by, ID |-> elements[k].ID]]
    ELSE <<>>

\* the values of the pairs a hash table destroyed, passed to its freeValue
ValuesFreedBy(hash, pairs) ==
    JerriesFreed(hash.freeValue, "JerriesHash",
                 [k \in DOMAIN pairs |-> pairs[k].value])

\* the values the lists of a multi-value table passed to its freeValue
ValuesFreedByMulti(M, gone) ==
    JerriesFreed(M.freeValue, "PhycharMultiHash",
                 [k \in DOMAIN gone |-> gone[k].v])

(* ------------------------------ activities ------------------------------ *)
\* "h + d" and "h - d" leave the ints for h near INT_MAX and INT_MIN.  A
\* signed overflow is undefined: the build wraps the sum around ("wrap"),
\* traps ("trap"), or has compiled the comparison as exact arithmetic
\* ("exact")
OverflowOutcomes == {"wrap", "trap", "exact"}

\* if (h + d > 100) h = 100; else h = h + d;
Raise(h, d, ub) ==
    IF h > INT_MAX - d
    THEN CASE ub = "trap"  -> [trap |-> TRUE, happiness |-> h]
           [] ub = "exact" -> [trap |-> FALSE, happiness |-> 100]
           [] OTHER        -> [trap |-> FALSE,
                               happiness |-> INT_MIN + (h - (INT_MAX - d)) - 1]
    ELSE IF h + d > 100 THEN [trap |-> FALSE, happiness |-> 100]
    ELSE [trap |-> FALSE, happiness |-> h + d]

\* if (h - d < 0) h = 0; else h = h - d;
Lower(h, d, ub) ==
    IF h < INT_MIN + d
    THEN CASE ub = "trap"  -> [trap |-> TRUE, happiness |-> h]
           [] ub = "exact" -> [trap |-> FALSE, happiness |-> 0]
           [] OTHER        -> [trap |-> FALSE,
                               happiness |-> INT_MAX - ((INT_MIN + d) - h) + 1]
    ELSE IF h - d < 0 THEN [trap |-> FALSE, happiness |-> 0]
    ELSE [trap |-> FALSE, happiness |-> h - d]

\* the body of the loop of each activity, on the happiness of one Jerry
FakeBethStep(h, ub) == IF h < 20 THEN Lower(h, 5, ub) ELSE Raise(h, 15, ub)

GolfStep(h, ub) == IF h < 50 THEN Lower(h, 10, ub) ELSE Raise(h, 10, ub)

TvStep(h, ub) == Raise(h, 20, ub)

ActivityStep(ch, h, ub) ==
    CASE ch = "1" -> FakeBethStep(h, ub)
      [] ch = "2" -> GolfStep(h, ub)
      [] OTHER    -> TvStep(h, ub)

\* "for (i = 1; i <= getLengthList(list); i++)" from i on: the happiness of
\* the i-th Jerry is replaced, then displayList
RECURSIVE EachJerry(_, _, _, _, _)
EachJerry(list, objs, i, ch, ub) ==
    IF i > getLengthList(list)
    THEN [status |-> displayList(list), trap |-> FALSE, objs |-> objs]
    ELSE LET jerr == getDataByIndex(list, i, "ok") IN
         IF jerr = NULL
         THEN [status |-> Invalid_input, trap |-> FALSE, objs |-> objs]
         ELSE Only({
                 IF r.trap
                 THEN [status |-> "none", trap |-> TRUE, objs |-> objs]
                 ELSE EachJerry(list, o, i + 1, ch, ub)
                 : r \in {ActivityStep(ch, objs[jerr.ID].happiness, ub)},
                   o \in {[objs EXCEPT ![jerr.ID].happiness =
                              ActivityStep(ch, @, ub).happiness]}})

InteractFakeBeth(list, objs, ub) ==
    IF list = NULL
    THEN [status |-> Invalid_input, trap |-> FALSE, objs |-> objs]
    ELSE EachJerry(list, objs, 1, "1", ub)

playGolf(list, objs, ub) ==
    IF list = NULL
    THEN [status |-> Invalid_input, trap |-> FALSE, objs |-> objs]
    ELSE EachJerry(list, objs, 1, "2", ub)

AdjustPictureSettOnTv(list, objs, ub) ==
    IF list = NULL
    THEN [status |-> Invalid_input, trap |-> FALSE, objs |-> objs]
    ELSE EachJerry(list, objs, 1, "3", ub)

\* ch is the line typed at the prompt
LetJerriesPlay(list, objs, ch, ub) ==
    IF list = NULL
    THEN [status |-> Invalid_input, trap |-> FALSE, objs |-> objs]
    ELSE IF getLengthList(list) = 0
    THEN [status |-> success, trap |-> FALSE, objs |-> objs]
    ELSE CASE ch = "1" -> InteractFakeBeth(list, objs, ub)
           [] ch = "2" -> playGolf(list, objs, ub)
           [] ch = "3" -> AdjustPictureSettOnTv(list, objs, ub)
           [] OTHER    -> [status |-> success, trap |-> FALSE, objs |-> objs]

(* ------------------------------- start-up ------------------------------- *)
\* main's four structures and where each is in its lifetime: "none" before
\* it is created (the pointer is null), "live", "destroyed", and "twice" once
\* a destroy call was made on the destroyed structure
Structures == {"planets", "JerriesList", "JerriesHash", "PhycharMultiHash"}

NewLife == [s \in Structures |-> "none"]

Created(l, s) == [l EXCEPT ![s] = "live"]

\* a destroyHashTable that frees nothing
Destroyed_skip(l, s) ==
    IF s = "JerriesHash" THEN l
    ELSE [l EXCEPT ![s] = CASE @ = "live"      -> "destroyed"
                            [] @ = "destroyed" -> "twice"
                            [] OTHER           -> @]

\* DestroyPlanets, destroyList, destroyHashTable or
\* destroyMultiValueHashTable on the pointer main holds: a null pointer gives
\* Invalid_input and nothing is freed
Destroyed(l, s) ==
    [l EXCEPT ![s] = CASE @ = "live"      -> "destroyed"
                       [] @ = "destroyed" -> "twice"
                       [] OTHER           -> @]

\* the allocation that fails during start-up: none, the list of main
\* ("list"), JerryCreate or appendNode for the i-th Jerry of the file
\* ("create", "append"), createHashTable ("hash"), addToHashTable for the
\* i-th Jerry ("hashAdd"), createMultiValueHashTable ("multi"), or
\* addToMultiValueHashTable for the j-th characteristic of the i-th Jerry
\* ("multiAdd"); how tells which allocation of that call fails
NoFail == [at |-> "none", i |-> 0, j |-> 0, how |-> "ok"]

MemAt(mem, at, i, j) ==
    IF mem.at = at /\ mem.i = i /\ mem.j = j THEN mem.how ELSE "ok"

\* The Jerries of a configuration file are a sequence of
\* [ID, happiness, PhysicalChar]: the line of the Jerry and the names on the
\* lines of its characteristics.  readCreateJerry makes the struct with the
\* happiness sscanf read and appends it to the list; readCreateJerryPhy adds
\* each characteristic to the last Jerry of the list
RECURSIVE ReadConfiguration(_, _, _, _, _)
ReadConfiguration(file, i, list, objs, mem) ==
    IF i > Len(file) THEN [status |-> success, list |-> list, objs |-> objs]
    ELSE Only({
            IF c.status = Memory_Problem
            THEN [status |-> Memory_Problem, list |-> list, objs |-> objs]
            ELSE IF c.status # success
            THEN [status |-> Invalid_input, list |-> list, objs |-> objs]
            ELSE IF a.status = Memory_Problem
            THEN [status |-> Memory_Problem, list |-> a.list, objs |-> objs]
            ELSE IF a.status # success
            THEN [status |-> Invalid_input, list |-> a.list, objs |-> objs]
            ELSE ReadConfiguration(
                     file, i + 1, a.list,
                     [objs EXCEPT ![file[i].ID] =
                         [c.jerr EXCEPT
                             !.PhysicalChar = file[i].PhysicalChar,
                             !.PhysicalVal = file[i].PhysicalVal]],
                     mem)
            : c \in {JerryCreate(file[i].ID, file[i].happiness,
                                 MemAt(mem, "create", i, 0))},
              a \in {appendNode(list, JerryPtr(file[i].ID), FirstFree(list),
                                MemAt(mem, "append", i, 0))}})

\* what CreateJerryHash and CreatePhaCharMultiHash give main: the status,
\* the table, whether the table was created and whether the function has
\* destroyed it before returning
Built(st, trap, table, made, destroyed) ==
    [status |-> st, trap |-> trap, table |-> table, made |-> made,
     destroyed |-> destroyed]

\* the loop of CreateJerryHash from the i-th Jerry on
RECURSIVE HashJerriesFrom(_, _, _, _, _)
HashJerriesFrom(list, H, i, wild, mem) ==
    IF i > getLengthList(list)
    THEN Built(success, FALSE, H, TRUE, FALSE)
    ELSE LET jerryToAdd == getDataByIndex(list, i, "ok") IN
         IF jerryToAdd = NULL
         THEN Built(Invalid_input, FALSE, H, TRUE, FALSE)
         ELSE Only({
                 IF addHash.trap
                 THEN Built("none", TRUE, H, TRUE, FALSE)
                 ELSE IF addHash.status = Memory_Problem
                 THEN Built(Memory_Problem, FALSE,
                            destroyHashTable(addHash.ht).ht, TRUE, TRUE)
                 ELSE IF addHash.status \in {Invalid_input, element_exist}
                 THEN Built(Invalid_input, FALSE, addHash.ht, TRUE, FALSE)
                 ELSE HashJerriesFrom(list, addHash.ht, i + 1, wild, mem)
                 : addHash \in {addToHashTable(
                                   H, jerryToAdd.ID, jerryToAdd,
                                   FirstFree(BucketAt(H, HashIndex(
                                       H, jerryToAdd.ID))),
                                   MemAt(mem, "hashAdd", i, 0), wild)}})

CreateJerryHash(list, planetsize, wild, mem) ==
    IF list = NULL
    THEN Built(Invalid_input, FALSE, NULL, FALSE, FALSE)
    ELSE IF mem.at = "hash"
    THEN Built(Memory_Problem, FALSE, NULL, FALSE, FALSE)
    ELSE LET HashSizePrimeNum ==
                 IF getLengthList(list) = 0
                 THEN FindBiggerPrimeNumber(planetsize)
                 ELSE FindBiggerPrimeNumber(getLengthList(list))
         IN HashJerriesFrom(list,
                            createHashTable("ShallowCopy", "ShallowFree",
                                            HashSizePrimeNum),
                            1, wild, mem)

\* the sum of number_PhyChar over the Jerries from the i-th on
RECURSIVE PhyCharCounterFrom(_, _, _)
PhyCharCounterFrom(list, objs, i) ==
    IF i > getLengthList(list) THEN 0
    ELSE Len(objs[getDataByIndex(list, i, "ok").ID].PhysicalChar)
            + PhyCharCounterFrom(list, objs, i + 1)

PhyCharCounter(list, objs) ==
    IF list = NULL THEN 0 ELSE PhyCharCounterFrom(list, objs, 1)

\* the address malloc gives the next value list
NewPhyList(heap) ==
    IF \A id \in PhyListIds : heap[id] # NULL THEN 0
    ELSE CHOOSE id \in PhyListIds :
             heap[id] = NULL /\ \A j \in PhyListIds : heap[j] = NULL => id <= j

\* the loops of CreatePhaCharMultiHash from the j-th characteristic of the
\* i-th Jerry on
RECURSIVE MultiJerriesFrom(_, _, _, _, _, _, _, _)
MultiJerriesFrom(list, objs, M, heap, i, j, wild, mem) ==
    IF i > getLengthList(list)
    THEN Built(success, FALSE, M, TRUE, FALSE) @@ [heap |-> heap]
    ELSE LET jerryToAdd == getDataByIndex(list, i, "ok") IN
    IF jerryToAdd = NULL
    THEN Built(Invalid_input, FALSE, M, TRUE, FALSE) @@ [heap |-> heap]
    ELSE IF j > Len(objs[jerryToAdd.ID].PhysicalChar)
    THEN MultiJerriesFrom(list, objs, M, heap, i + 1, 1, wild, mem)
    ELSE Only({
            IF AddToMulti.trap
            THEN Built("none", TRUE, M, TRUE, FALSE) @@ [heap |-> heap]
            ELSE IF AddToMulti.status \in {Memory_Problem, failure}
            THEN Only({Built(AddToMulti.status, FALSE, d.mv, TRUE, TRUE)
                          @@ [heap |-> d.heap]
                       : d \in {destroyMultiValueHashTable(
                                   AddToMulti.mv, AddToMulti.heap)}})
            ELSE IF AddToMulti.status = Invalid_input
            THEN Built(Invalid_input, FALSE, AddToMulti.mv, TRUE, FALSE)
                    @@ [heap |-> AddToMulti.heap]
            ELSE MultiJerriesFrom(list, objs, AddToMulti.mv,
                                  AddToMulti.heap, i, j + 1, wild, mem)
            : AddToMulti \in {addToMultiValueHashTable(
                                  M, heap, objs[jerryToAdd.ID].PhysicalChar[j],
                                  jerryToAdd, NewPhyList(heap),
                                  MemAt(mem, "multiAdd", i, j), wild)}})

CreatePhaCharMultiHash(list, objs, planetsize, wild, mem) ==
    IF list = NULL
    THEN Built(Invalid_input, FALSE, NULL, FALSE, FALSE)
            @@ [heap |-> [id \in PhyListIds |-> NULL]]
    ELSE IF mem.at = "multi"
    THEN Built(failure, FALSE, NULL, FALSE, FALSE)
            @@ [heap |-> [id \in PhyListIds |-> NULL]]
    ELSE LET PhyCharCount == PhyCharCounter(list, objs)
             MultiHashSizePrimeNum ==
                 IF PhyCharCount = 0
                 THEN IF getLengthList(list) = 0
                      THEN FindBiggerPrimeNumber(planetsize)
                      ELSE FindBiggerPrimeNumber(getLengthList(list))
                 ELSE FindBiggerPrimeNumber(PhyCharCount)
         IN MultiJerriesFrom(
                list, objs,
                createMultiValueHashTable("ShallowCopy", "ShallowFree",
                                          "EqualJerryInLink",
                                          MultiHashSizePrimeNum),
                [id \in PhyListIds |-> NULL], 1, 1, wild, mem)

(* ------------------------------- commands ------------------------------- *)
\* what fails in the allocations of one TakeThisJerryAway call: the struct,
\* the node of the list, or the pair, the key copy or the node of the hash
\* table
TakeMemOutcomes ==
    {"ok", "jerry_fail", "node_fail", "pair_fail", "key_fail", "bucket_fail"}

\* Jerry_ID, the planet (known or not) and the happiness are what scanf
\* read at the prompts
TakeThisJerryAway(list, hash, objs, Jerry_ID, planetKnown, JerryHappines, mem, wild) ==
    LET ret(st, trap, l, h, o) ==
            [status |-> st, trap |-> trap, list |-> l, hash |-> h,
             objs |-> o]
    IN
    IF list = NULL \/ hash = NULL
    THEN ret(Invalid_input, FALSE, list, hash, objs)
    ELSE Only({
    IF CheckJerry.trap THEN ret("none", TRUE, list, hash, objs)
    ELSE IF CheckJerry.ret # NULL
    THEN ret(success, FALSE, list, hash, objs)
    ELSE IF ~planetKnown
    THEN ret(success, FALSE, list, hash, objs)
    ELSE Only({
    IF CreateJerr.status # success
    THEN ret(CreateJerr.status, FALSE, list, hash, objs)
    ELSE Only({
    IF AppendNode.status \in {Invalid_input, Memory_Problem}
    THEN ret(AppendNode.status, FALSE, AppendNode.list, hash, objs1)
    ELSE Only({
    IF AddToHash.trap
    THEN ret("none", TRUE, AppendNode.list, hash, objs1)
    ELSE IF AddToHash.status \in {Invalid_input, Memory_Problem}
    THEN ret(AddToHash.status, FALSE, AppendNode.list, AddToHash.ht, objs1)
    ELSE ret(JerryPrint(JerryPtr(Jerry_ID)), FALSE, AppendNode.list,
             AddToHash.ht, objs1)
    : AddToHash \in
         {addToHashTable(hash, Jerry_ID, JerryPtr(Jerry_ID),
                         FirstFree(BucketAt(hash, HashIndex(hash, Jerry_ID))),
                         HtMem(mem), wild)} })
    : objs1 \in {[objs EXCEPT ![Jerry_ID] = CreateJerr.jerr]},
      AppendNode \in {appendNode(list, JerryPtr(Jerry_ID), FirstFree(list),
                                 IF mem = "node_fail" THEN mem ELSE "ok")} })
    : CreateJerr \in {JerryCreate(Jerry_ID, JerryHappines, mem)} })
    : CheckJerry \in {lookupInHashTable(hash, Jerry_ID, wild)} })

\* the loop of RemoveJerryFromBoree over the characteristics of the Jerry
\* from the i-th on
RECURSIVE RemoveCharacteristics(_, _, _, _, _, _)
RemoveCharacteristics(M, heap, ID, names, i, wild) ==
    IF i > Len(names)
    THEN [status |-> success, trap |-> FALSE, multi |-> M, heap |-> heap,
          gone |-> <<>>]
    ELSE Only({
            IF removeStatus.trap
            THEN [status |-> "none", trap |-> TRUE, multi |-> removeStatus.mv,
                  heap |-> removeStatus.heap, gone |-> removeStatus.gone]
            ELSE IF removeStatus.status \in {Invalid_input, no_element}
            THEN [status |-> Invalid_input, trap |-> FALSE,
                  multi |-> removeStatus.mv, heap |-> removeStatus.heap,
                  gone |-> removeStatus.gone]
            ELSE Only({
                 [rest EXCEPT !.gone = removeStatus.gone \o @]
                 : rest \in {RemoveCharacteristics(
                                 removeStatus.mv, removeStatus.heap,
                                 ID, names, i + 1, wild)}})
            : removeStatus \in {removeFromMultiValueHashTable(
                                    M, heap, names[i], ID, wild)}})

\* deleteNode on the list calls FreeJerryInLink, which destroys the struct
RemoveJerryFromBoree(hash, M, heap, list, objs, Jerry_ID, wild) ==
    IF hash = NULL \/ M = NULL \/ list = NULL \/ Jerry_ID = NULL
    THEN BoreeResult(Invalid_input, FALSE, list, hash, M, heap, objs)
    ELSE
    LET CheckJerry == lookupInHashTable(hash, Jerry_ID, wild) IN
    IF CheckJerry.trap
    THEN BoreeResult("none", TRUE, list, hash, M, heap, objs)
    ELSE IF CheckJerry.ret = NULL
    THEN BoreeResult(success, FALSE, list, hash, M, heap, objs)
    ELSE Only({
        IF removeFromHash.trap
        THEN BoreeResult("none", TRUE, list, hash, M, heap, objs)
        ELSE IF removeFromHash.status = Invalid_input
        THEN [BoreeResult(Invalid_input, FALSE, list, removeFromHash.ht, M,
                          heap, objs) EXCEPT
                 !.freed = ValuesFreedBy(hash, removeFromHash.gone)]
        ELSE Only({
            IF c.trap \/ c.status = Invalid_input
            THEN [BoreeResult(IF c.trap THEN "none" ELSE Invalid_input,
                              c.trap, list, removeFromHash.ht, c.multi,
                              c.heap, objs) EXCEPT
                     !.freed = ValuesFreedBy(hash, removeFromHash.gone)
                                  \o ValuesFreedByMulti(M, c.gone)]
            ELSE Only({
                IF removeLinkList.status \in {Invalid_input, no_element}
                THEN [BoreeResult(Invalid_input, FALSE, removeLinkList.list,
                                  removeFromHash.ht, c.multi, c.heap, objs)
                         EXCEPT
                         !.freed = ValuesFreedBy(hash, removeFromHash.gone)
                                      \o ValuesFreedByMulti(M, c.gone)]
                ELSE [BoreeResult(success, FALSE, removeLinkList.list,
                                  removeFromHash.ht, c.multi, c.heap,
                                  [objs EXCEPT ![CheckJerry.ret.ID] = NULL])
                         EXCEPT
                         !.freed = ValuesFreedBy(hash, removeFromHash.gone)
                                      \o ValuesFreedByMulti(M, c.gone)
                                      \o JerriesFreed(list.freeElement,
                                                      "JerriesList",
                                                      removeLinkList.freed)]
                : removeLinkList \in {deleteNode(list, CheckJerry.ret.ID)}})
            : c \in {RemoveCharacteristics(
                         M, heap, CheckJerry.ret.ID,
                         objs[CheckJerry.ret.ID].PhysicalChar, 1, wild)}})
        : removeFromHash \in {removeFromHashTable(hash, Jerry_ID, wild)}})

\* the loop of GiveSaddestJerry from the i-th Jerry on: the value of
\* indexMinJerry at its end
RECURSIVE SaddestFrom(_, _, _, _, _)
SaddestFrom(list, objs, i, minHappines, indexMinJerry) ==
    IF i > getLengthList(list) THEN indexMinJerry
    ELSE LET jerr == getDataByIndex(list, i, "ok") IN
         IF objs[jerr.ID].happiness < minHappines
         THEN SaddestFrom(list, objs, i + 1, objs[jerr.ID].happiness, i)
         ELSE SaddestFrom(list, objs, i + 1, minHappines, indexMinJerry)

GiveSaddestJerry(hash, M, heap, list, objs, wild) ==
    IF hash = NULL \/ M = NULL \/ list = NULL
    THEN BoreeResult(Invalid_input, FALSE, list, hash, M, heap, objs)
    ELSE IF getLengthList(list) = 0
    THEN BoreeResult(success, FALSE, list, hash, M, heap, objs)
    ELSE
    LET indexMinJerry == SaddestFrom(list, objs, 1, 101, -1)
        jerryToGive == getDataByIndex(list, indexMinJerry, "ok")
    IN
    IF JerryPrint(jerryToGive) = Invalid_input
    THEN BoreeResult(Invalid_input, FALSE, list, hash, M, heap, objs)
    ELSE RemoveJerryFromBoree(hash, M, heap, list, objs,
                              jerryToGive.ID, wild)

(* ------------------- the characteristics of a Jerry --------------------- *)
no_PhyChar == "no_PhyChar"
Phychar_exist == "Phychar_exist"

\* what fails in the allocations of one AddPhCharToJerryInBoree call: the
\* PhyChar ("phy_fail"), the array of the Jerry ("array_fail"), or an
\* allocation of addToMultiValueHashTable
AddMemOutcomes == {"ok", "phy_fail", "array_fail", "list_fail", "node_fail"}

\* PhysicalCharCheck on the struct jerr: the place of the characteristic of
\* this name in the array, 0 when there is none
PhyCharIndex(jerr, name) ==
    IF \E i \in DOMAIN jerr.PhysicalChar : jerr.PhysicalChar[i] = name
    THEN CHOOSE i \in DOMAIN jerr.PhysicalChar :
            /\ jerr.PhysicalChar[i] = name
            /\ \A k \in 1..(i - 1) : jerr.PhysicalChar[k] # name
    ELSE 0

PhysicalCharCheck(jerr, name) ==
    IF name = NULL \/ jerr = NULL THEN Invalid_input
    ELSE IF PhyCharIndex(jerr, name) # 0 THEN success
    ELSE no_PhyChar

\* PhysicalCharAdd puts the characteristic in the last place of the array
PhysicalCharAdd(jerr, name, value, mem) ==
    IF name = NULL \/ jerr = NULL
    THEN [status |-> Invalid_input, jerr |-> jerr]
    ELSE IF PhysicalCharCheck(jerr, name) = success
    THEN [status |-> Phychar_exist, jerr |-> jerr]
    ELSE IF mem = "array_fail"
    THEN [status |-> Memory_Problem, jerr |-> jerr]
    ELSE [status |-> success,
          jerr |-> [jerr EXCEPT !.PhysicalChar = Append(@, name),
                                !.PhysicalVal = Append(@, value)]]

\* the sequence without its i-th place
Shifted(seq, i) ==
    [k \in 1..(Len(seq) - 1) |-> IF k < i THEN seq[k] ELSE seq[k + 1]]

\* PhysicalCharRemove frees the characteristic, moves the later ones one
\* place left and shrinks the array, which fails with mem = "array_fail"
PhysicalCharRemove(jerr, PhyName, mem) ==
    IF jerr = NULL \/ PhyName = NULL
    THEN [status |-> Invalid_input, jerr |-> jerr]
    ELSE IF Len(jerr.PhysicalChar) = 0 \/ PhyCharIndex(jerr, PhyName) = 0
    THEN [status |-> no_PhyChar, jerr |-> jerr]
    ELSE Only({
            [status |-> IF Len(left.PhysicalChar) # 0 /\ mem = "array_fail"
                        THEN Memory_Problem ELSE success,
             jerr |-> left]
            : left \in {Only({
                           [jerr EXCEPT !.PhysicalChar = Shifted(@, i),
                                        !.PhysicalVal = Shifted(@, i)]
                           : i \in {PhyCharIndex(jerr, PhyName)}})}})

\* the double that is not a number, a value apart from the values of the
\* characteristics
NAN == -999

\* GetValOfPhyChar
GetValOfPhyChar(jerr, PhyCharName) ==
    IF jerr = NULL \/ PhyCharName = NULL THEN NAN
    ELSE Only({IF i = 0 THEN NAN ELSE jerr.PhysicalVal[i]
               : i \in {PhyCharIndex(jerr, PhyCharName)}})

\* displayMultiValueHashElementsByKey
displayMultiValueHashElementsByKey(M, key, wild) ==
    IF M = NULL \/ key = NULL
    THEN [status |-> Invalid_input, trap |-> FALSE]
    ELSE Only({
            IF ValInKeyVal.trap THEN [status |-> "none", trap |-> TRUE]
            ELSE IF ValInKeyVal.ret = NULL
            THEN [status |-> no_element, trap |-> FALSE]
            ELSE [status |-> success, trap |-> FALSE]
            : ValInKeyVal \in {lookupInHashTable(M.HashTable, key, wild)}})

\* menu option 2: Jerry_ID, PhyCharName and PhyVal are what scanf read
AddPhCharToJerryInBoree(hash, M, heap, list, objs, Jerry_ID, PhyCharName, PhyVal, mem, wild) ==
    IF hash = NULL \/ M = NULL
    THEN BoreeResult(Invalid_input, FALSE, list, hash, M, heap, objs)
    ELSE Only({
    IF CheckJerry.trap
    THEN BoreeResult("none", TRUE, list, hash, M, heap, objs)
    ELSE IF CheckJerry.ret = NULL
    THEN BoreeResult(success, FALSE, list, hash, M, heap, objs)
    ELSE IF PhysicalCharCheck(objs[CheckJerry.ret.ID], PhyCharName) = success
    THEN BoreeResult(success, FALSE, list, hash, M, heap, objs)
    ELSE IF mem = "phy_fail"
    THEN BoreeResult(Memory_Problem, FALSE, list, hash, M, heap, objs)
    ELSE Only({
        IF PhyCharAdd.status \in {Invalid_input, Memory_Problem}
        THEN BoreeResult(PhyCharAdd.status, FALSE, list, hash, M, heap, objs)
        ELSE Only({
            IF AddToMulti.trap
            THEN BoreeResult("none", TRUE, list, hash, M, heap, objs1)
            ELSE IF AddToMulti.status \in
                       {Invalid_input, Memory_Problem, failure}
            THEN BoreeResult(AddToMulti.status, FALSE, list, hash,
                             AddToMulti.mv, AddToMulti.heap, objs1)
            ELSE Only({
                IF display.trap
                THEN BoreeResult("none", TRUE, list, hash, AddToMulti.mv,
                                 AddToMulti.heap, objs1)
                ELSE IF display.status = Invalid_input
                THEN BoreeResult(Invalid_input, FALSE, list, hash,
                                 AddToMulti.mv, AddToMulti.heap, objs1)
                ELSE BoreeResult(success, FALSE, list, hash, AddToMulti.mv,
                                 AddToMulti.heap, objs1)
                : display \in {displayMultiValueHashElementsByKey(
                                  AddToMulti.mv, PhyCharName, wild)}})
            : AddToMulti \in {addToMultiValueHashTable(
                                  M, heap, PhyCharName, CheckJerry.ret,
                                  NewPhyList(heap),
                                  IF mem = "array_fail" THEN "ok" ELSE mem,
                                  wild)},
              objs1 \in {[objs EXCEPT ![CheckJerry.ret.ID] =
                                         PhyCharAdd.jerr]}})
        : PhyCharAdd \in {PhysicalCharAdd(objs[CheckJerry.ret.ID],
                                          PhyCharName, PhyVal, mem)}})
    : CheckJerry \in {lookupInHashTable(hash, Jerry_ID, wild)}})

\* menu option 3
RemovePhayCharFromJerryBoree(hash, M, heap, list, objs, Jerry_ID, PhyCharName, mem, wild) ==
    IF hash = NULL \/ M = NULL
    THEN BoreeResult(Invalid_input, FALSE, list, hash, M, heap, objs)
    ELSE Only({
    IF CheckJerry.trap
    THEN BoreeResult("none", TRUE, list, hash, M, heap, objs)
    ELSE IF CheckJerry.ret = NULL
    THEN BoreeResult(success, FALSE, list, hash, M, heap, objs)
    ELSE IF PhysicalCharCheck(objs[CheckJerry.ret.ID], PhyCharName)
               = no_PhyChar
    THEN BoreeResult(success, FALSE, list, hash, M, heap, objs)
    ELSE Only({
        Only({
        IF PhyCharRemove.status \in {Invalid_input, Memory_Problem}
        THEN BoreeResult(PhyCharRemove.status, FALSE, list, hash, M, heap,
                         objs1)
        ELSE Only({
            [(IF removeStatus.trap
              THEN BoreeResult("none", TRUE, list, hash, removeStatus.mv,
                               removeStatus.heap, objs1)
              ELSE IF removeStatus.status \in {Invalid_input, no_element}
              THEN BoreeResult(Invalid_input, FALSE, list, hash,
                               removeStatus.mv, removeStatus.heap, objs1)
              ELSE BoreeResult(success, FALSE, list, hash, removeStatus.mv,
                               removeStatus.heap, objs1)) EXCEPT
                !.freed = ValuesFreedByMulti(M, removeStatus.gone)]
            : removeStatus \in {removeFromMultiValueHashTable(
                                    M, heap, PhyCharName, CheckJerry.ret.ID,
                                    wild)}})
        : objs1 \in {[objs EXCEPT ![CheckJerry.ret.ID] =
                                   PhyCharRemove.jerr]}})
        : PhyCharRemove \in {PhysicalCharRemove(objs[CheckJerry.ret.ID],
                                                PhyCharName, mem)}})
    : CheckJerry \in {lookupInHashTable(hash, Jerry_ID, wild)}})

\* "PhayVal < ValueToCheck ? ValueToCheck - PhayVal : PhayVal - ValueToCheck"
\* on doubles: a comparison with NAN is false and a difference with NAN is
\* NAN
AbsDifference(PhayVal, ValueToCheck) ==
    IF PhayVal = NAN THEN NAN
    ELSE IF PhayVal < ValueToCheck THEN ValueToCheck - PhayVal
    ELSE PhayVal - ValueToCheck

\* the loop of FindMostSimilarJerry from the i-th Jerry of the value list
\* on: the value of indexMinJerry at its end ("PhayVal==NAN" is never true)
RECURSIVE SimilarFrom(_, _, _, _, _, _, _)
SimilarFrom(values, objs, PhyCharName, ValueToCheck, i, MinVal, indexMinJerry) ==
    IF i > getLengthList(values) THEN indexMinJerry
    ELSE Only({
            IF MinVal = -1
            THEN SimilarFrom(values, objs, PhyCharName, ValueToCheck, i + 1,
                             d, i)
            ELSE IF MinVal # NAN /\ d # NAN /\ MinVal > d
            THEN SimilarFrom(values, objs, PhyCharName, ValueToCheck, i + 1,
                             d, i)
            ELSE SimilarFrom(values, objs, PhyCharName, ValueToCheck, i + 1,
                             MinVal, indexMinJerry)
            : d \in {AbsDifference(
                         GetValOfPhyChar(
                             objs[getDataByIndex(values, i, "ok").ID],
                             PhyCharName),
                         ValueToCheck)}})

\* menu option 5
FindMostSimilarJerry(hash, M, heap, list, objs, PhyCharName, ValueToCheck, wild) ==
    IF hash = NULL \/ M = NULL \/ list = NULL
    THEN BoreeResult(Invalid_input, FALSE, list, hash, M, heap, objs)
    ELSE Only({
    IF ListOfValPhCheck.trap
    THEN BoreeResult("none", TRUE, list, hash, M, heap, objs)
    ELSE IF ListOfValPhCheck.ret = NULL
    THEN BoreeResult(success, FALSE, list, hash, M, heap, objs)
    ELSE Only({
        IF JerryPrint(jerr) = Invalid_input
        THEN BoreeResult(Invalid_input, FALSE, list, hash, M, heap, objs)
        ELSE RemoveJerryFromBoree(hash, M, heap, list, objs, jerr.ID, wild)
        : jerr \in {getDataByIndex(
                        heap[ListOfValPhCheck.ret.lptr],
                        SimilarFrom(heap[ListOfValPhCheck.ret.lptr], objs,
                                    PhyCharName, ValueToCheck, 1, -1, -1),
                        "ok")}})
    : ListOfValPhCheck \in {lookupInMultiValueHashTable(M, PhyCharName,
                                                        wild)}})

\* CleanUp: destroyMultiValueHashTable, destroyHashTable, then destroyList,
\* whose FreeJerryInLink destroys the struct of every Jerry of the list, then
\* DestroyPlanets; l is the lifetime of the four structures
CleanUp(list, hash, M, heap, objs, l) ==
    IF list = NULL \/ hash = NULL \/ M = NULL
    THEN BoreeResult(Invalid_input, FALSE, list, hash, M, heap, objs)
            @@ [life |->
                   IF M = NULL THEN l
                   ELSE IF hash = NULL THEN Destroyed(l, "PhycharMultiHash")
                   ELSE Destroyed(Destroyed(l, "PhycharMultiHash"),
                                  "JerriesHash")]
    ELSE LET DestroyMulti == destroyMultiValueHashTable(M, heap)
             DestroyList == destroyList(list)
         IN [BoreeResult(
                success, FALSE,
                createLinkedList(list.copyElement, list.freeElement,
                                 list.equal),
                destroyHashTable(hash).ht,
                DestroyMulti.mv, DestroyMulti.heap,
                [id \in DOMAIN objs |->
                    IF \E k \in DOMAIN DestroyList : DestroyList[k].ID = id
                    THEN NULL ELSE objs[id]]) EXCEPT
                !.freed =
                   ValuesFreedByMulti(
                      M, SelectSeq(DestroyPairs(DestroyMulti.at,
                                                DestroyMulti.pairs, 1),
                                   LAMBDA o : o.kind = "val"))
                      \o ValuesFreedBy(hash, destroyHashTable(hash).gone)
                      \o JerriesFreed(list.freeElement, "JerriesList",
                                      DestroyList)]
              @@ [life |-> Destroyed(Destroyed(Destroyed(Destroyed(
                               l, "PhycharMultiHash"), "JerriesHash"),
                               "JerriesList"), "planets")]

(* ---------------------- daycare specification --------------------------- *)
\* number of Jerries in the daycare at once
MaxDaycare == 2

\* the value of the characteristics in the configuration file: 1 for the
\* first Jerry and 3 for the second
ConfigVal(id) == IF id = Str(<<49>>) THEN 1 ELSE 3

\* the lines of a Jerry in a configuration file
ConfigLines(id, chars) ==
    {[ID |-> id, happiness |-> h, PhysicalChar |-> p,
      PhysicalVal |-> [k \in DOMAIN p |-> ConfigVal(id)]] :
        h \in ConfigHappiness, p \in chars}

\* the configuration files: no Jerry, Jerry "1", or Jerries "1" and "2";
\* the IDs of a file differ and a Jerry has no characteristic twice
ConfigFiles ==
    {<<>>}
       \cup {<<a>> : a \in ConfigLines(Str(<<49>>),
                                       {<<>>, <<PhyA>>, <<PhyA, PhyWild>>})}
       \cup {<<a, b>> :
                a \in ConfigLines(Str(<<49>>),
                                  {<<>>, <<PhyA>>, <<PhyA, PhyWild>>}),
                b \in ConfigLines(Str(<<50>>), {<<>>, <<PhyA>>})}

\* the allocations that can fail while main starts up on this file
StartMemOutcomes(file) ==
    {[NoFail EXCEPT !.at = at] : at \in {"none", "list", "hash", "multi"}}
       \cup {[at |-> "create", i |-> i, j |-> 0, how |-> "jerry_fail"] :
                i \in DOMAIN file}
       \cup {[at |-> "append", i |-> i, j |-> 0, how |-> "node_fail"] :
                i \in DOMAIN file}
       \cup {[at |-> "hashAdd", i |-> i, j |-> 0, how |-> how] :
                i \in DOMAIN file, how \in HMemOutcomes \ {"ok"}}
       \cup UNION {{[at |-> "multiAdd", i |-> i, j |-> j, how |-> how] :
                       j \in DOMAIN file[i].PhysicalChar,
                       how \in MvMemOutcomes \ {"ok"}} : i \in DOMAIN file}

\* the table with the nodes of every bucket relocated
RelocateHash(H) ==
    IF H = NULL THEN NULL
    ELSE [H EXCEPT !.table = [i \in DOMAIN @ |-> Relocate(H.table[i])]]

\* the lifetimes after a call of CreateJerryHash or CreatePhaCharMultiHash
\* for the structure s
LifeAfter(l, s, r) ==
    IF ~r.made THEN l
    ELSE IF r.destroyed THEN Destroyed(Created(l, s), s)
    ELSE Created(l, s)

\* main up to the menu: the planets array, the list, ReadConfiguration,
\* CreateJerryHash and CreatePhaCharMultiHash, each followed by what main
\* destroys before it returns 1; pc is "run" at the menu, "exit" where main
\* has returned, "trap" where a call trapped
Startup(file, planetsize, wild, mem) ==
    LET none == [id \in PhyListIds |-> NULL]
        planets == Created(NewLife, "planets")
        both == Created(planets, "JerriesList")
        at(pc, list, objs, hash, multi, heap, l) ==
            [pc |-> pc, list |-> list, objs |-> objs, hash |-> hash,
             multi |-> multi, heap |-> heap, life |-> l]
        \* destroyList(JerriesList); DestroyPlanets(&planets,planets_size);
        listAndPlanets(l) == Destroyed(Destroyed(l, "JerriesList"), "planets")
        \* destroyHashTable((JerriesHash)); and the two above
        hashListAndPlanets(l) == listAndPlanets(Destroyed(l, "JerriesHash"))
    IN
    IF mem.at = "list"
    THEN at("exit", NULL, [id \in AllIds |-> NULL], NULL, NULL, none,
            Destroyed(planets, "planets"))
    ELSE
    Only({
        IF read.status \in {Memory_Problem, Invalid_input}
        THEN at("exit", read.list, read.objs, NULL, NULL, none,
                listAndPlanets(both))
        ELSE Only({
            LET l1 == LifeAfter(both, "JerriesHash", CreateHash) IN
            IF CreateHash.trap
            THEN at("trap", read.list, read.objs, NULL, NULL, none, l1)
            ELSE IF CreateHash.status = Memory_Problem
            THEN at("exit", read.list, read.objs, CreateHash.table, NULL,
                    none, listAndPlanets(l1))
            ELSE IF CreateHash.status = Invalid_input
            THEN at("exit", read.list, read.objs, CreateHash.table, NULL,
                    none, hashListAndPlanets(l1))
            ELSE Only({
                LET l2 == LifeAfter(l1, "PhycharMultiHash", CreateMultiHash)
                IN
                IF CreateMultiHash.trap
                THEN at("trap", read.list, read.objs, CreateHash.table,
                        NULL, none, l2)
                ELSE IF CreateMultiHash.status \in {Memory_Problem, failure}
                THEN at("exit", read.list, read.objs, CreateHash.table,
                        CreateMultiHash.table, CreateMultiHash.heap,
                        hashListAndPlanets(l2))
                ELSE IF CreateMultiHash.status = Invalid_input
                THEN Only({at("exit", c.list, c.objs, c.hash, c.multi,
                              c.heap, c.life)
                           : c \in {CleanUp(read.list, CreateHash.table,
                                            CreateMultiHash.table,
                                            CreateMultiHash.heap,
                                            read.objs, l2)}})
                ELSE at("run", read.list, read.objs, CreateHash.table,
                        CreateMultiHash.table, CreateMultiHash.heap, l2)
                : CreateMultiHash \in {CreatePhaCharMultiHash(
                                          read.list, read.objs, planetsize,
                                          wild, mem)}})
            : CreateHash \in {CreateJerryHash(read.list, planetsize, wild,
                                              mem)}})
        : read \in {ReadConfiguration(file, 1,
                                      createLinkedList("ShallowCopy",
                                                       "FreeJerryInLink",
                                                       "EqualJerryInLink"),
                                      [id \in AllIds |-> NULL], mem)}})

\* argv[1] is 1
BoreeInit ==
    /\ ctor = NoCtor
    /\ ncall = NoNCall
    /\ ListIdle
    /\ PrimeIdle
    /\ HtUnused
    /\ MvIdle
    /\ charSigned \in BOOLEAN
    /\ \E file \in ConfigFiles, wild \in WildOutcomes :
       \E mem \in StartMemOutcomes(file) :
       \E r \in {Startup(file, 1, wild, mem)} :
          /\ JerriesList = Relocate(r.list)
          /\ JerriesHash = RelocateHash(r.hash)
          /\ PhycharMultiHash = IF r.multi = NULL THEN NULL
                                ELSE RelocateTable(r.multi)
          /\ phyLists = RelocateHeap(r.heap)
          /\ jerryObj = r.objs
          /\ bpc = r.pc
          /\ life = r.life
    /\ bcall = NoBCall
    /\ plays = 0

\* what a step of this specification leaves alone
notBoree == <<listVars, primeVars, htVars, mvVars, ctor, ncall>>

\* main after a command returned st: the menu again, or CleanUp and return
AfterCommand(st, trap) ==
    IF trap THEN "trap"
    ELSE IF st \in {Memory_Problem, Invalid_input, failure, failure_reading}
    THEN "cleanup"
    ELSE "run"

\* the outcomes of reading the bucket of this key
BoreeWild(H, key) ==
    IF key # NULL /\ ~InTable(H, HashIndex(H, key)) THEN WildOutcomes
    ELSE {"null"}

\* the outcomes of the reads RemoveJerryFromBoree makes for this ID
RemoveWild(id) ==
    IF \/ ~InTable(JerriesHash, HashIndex(JerriesHash, id))
       \/ /\ jerryObj[id] # NULL
          /\ \E i \in DOMAIN jerryObj[id].PhysicalChar :
                ~InTable(PhycharMultiHash.HashTable,
                         HashIndex(PhycharMultiHash.HashTable,
                                   jerryObj[id].PhysicalChar[i]))
    THEN WildOutcomes
    ELSE {"null"}

\* menu option 1
BoreeTake(id, planetKnown, happiness, mem, wild) ==
    /\ bpc = "run"
    /\ getLengthList(JerriesList) < MaxDaycare
    /\ \E r \in {TakeThisJerryAway(JerriesList, JerriesHash, jerryObj, id,
                                   planetKnown, happiness, mem, wild)} :
       /\ JerriesList' = Relocate(r.list)
       /\ JerriesHash' = RelocateHash(r.hash)
       /\ jerryObj' = r.objs
       /\ bpc' = AfterCommand(r.status, r.trap)
       /\ bcall' = [NoBCall EXCEPT !.op = "TakeThisJerryAway", !.id = id,
                                   !.status = r.status]
    /\ UNCHANGED <<PhycharMultiHash, phyLists, plays, life, notBoree>>

\* menu option 4
BoreeRemove(id, wild) ==
    /\ bpc = "run"
    /\ \E r \in {RemoveJerryFromBoree(JerriesHash, PhycharMultiHash, phyLists,
                                      JerriesList, jerryObj, id, wild)} :
       /\ JerriesList' = Relocate(r.list)
       /\ JerriesHash' = RelocateHash(r.hash)
       /\ PhycharMultiHash' = RelocateTable(r.multi)
       /\ phyLists' = RelocateHeap(r.heap)
       /\ jerryObj' = r.objs
       /\ bpc' = AfterCommand(r.status, r.trap)
       /\ bcall' = [NoBCall EXCEPT !.op = "RemoveJerryFromBoree", !.id = id,
                                   !.status = r.status,
                                   !.freed = r.freed]
    /\ UNCHANGED <<plays, life, notBoree>>

\* menu option 6
BoreeSaddest(wild) ==
    /\ bpc = "run"
    /\ \E r \in {GiveSaddestJerry(JerriesHash, PhycharMultiHash, phyLists,
                                  JerriesList, jerryObj, wild)} :
       /\ JerriesList' = Relocate(r.list)
       /\ JerriesHash' = RelocateHash(r.hash)
       /\ PhycharMultiHash' = RelocateTable(r.multi)
       /\ phyLists' = RelocateHeap(r.heap)
       /\ jerryObj' = r.objs
       /\ bpc' = AfterCommand(r.status, r.trap)
       /\ bcall' = [NoBCall EXCEPT !.op = "GiveSaddestJerry",
                                   !.status = r.status,
                                   !.freed = r.freed]
    /\ UNCHANGED <<plays, life, notBoree>>

\* whether the activity leaves the ints on the happiness of some Jerry
Overflows(ch) ==
    \E id \in AllIds :
       /\ jerryObj[id] # NULL
       /\ \/ jerryObj[id].happiness > INT_MAX - 20
          \/ jerryObj[id].happiness < INT_MIN + 10

\* menu option 8, ch being the activity typed
BoreePlay(ch, ub) ==
    /\ bpc = "run"
    /\ plays < MaxPlays
    /\ \E r \in {LetJerriesPlay(JerriesList, jerryObj, ch, ub)} :
       /\ jerryObj' = r.objs
       /\ bpc' = AfterCommand(r.status, r.trap)
       /\ bcall' = [NoBCall EXCEPT !.op = "LetJerriesPlay", !.ch = ch,
                                   !.status = r.status]
    /\ plays' = plays + 1
    /\ UNCHANGED <<JerriesList, JerriesHash, PhycharMultiHash, phyLists,
                   life, notBoree>>

\* menu option 9
BoreeQuit ==
    /\ bpc = "run"
    /\ bpc' = "cleanup"
    /\ bcall' = [NoBCall EXCEPT !.op = "quit", !.status = success]
    /\ UNCHANGED <<JerriesList, JerriesHash, PhycharMultiHash, phyLists,
                   jerryObj, plays, life, notBoree>>

\* CleanUp, then main returns
BoreeCleanUp ==
    /\ bpc = "cleanup"
    /\ \E r \in {CleanUp(JerriesList, JerriesHash, PhycharMultiHash, phyLists,
                         jerryObj, life)} :
       /\ JerriesList' = r.list
       /\ JerriesHash' = r.hash
       /\ PhycharMultiHash' = r.multi
       /\ phyLists' = r.heap
       /\ jerryObj' = r.objs
       /\ life' = r.life
       /\ bcall' = [NoBCall EXCEPT !.op = "CleanUp", !.status = r.status,
                                   !.freed = r.freed]
    /\ bpc' = "exit"
    /\ UNCHANGED <<plays, notBoree>>

BoreeNext ==
    \/ /\ bpc = "run"
       /\ \E id \in AllIds, happiness \in PromptHappiness,
             mem \in TakeMemOutcomes :
             \E wild \in BoreeWild(JerriesHash, id) :
                BoreeTake(id, TRUE, happiness, mem, wild)
    \/ /\ bpc = "run"
       /\ \E id \in AllIds :
             \E wild \in BoreeWild(JerriesHash, id) :
                BoreeTake(id, FALSE, 0, "ok", wild)
    \/ /\ bpc = "run"
       /\ \E id \in AllIds :
             \E wild \in RemoveWild(id) : BoreeRemove(id, wild)
    \/ /\ bpc = "run"
       /\ \E wild \in UNION {RemoveWild(id) : id \in BoreeIds} :
             BoreeSaddest(wild)
    \/ \E ch \in {"1", "2", "3", "4"} :
          \E ub \in IF Overflows(ch) THEN OverflowOutcomes ELSE {"wrap"} :
             BoreePlay(ch, ub)
    \/ BoreeQuit
    \/ BoreeCleanUp

BoreeSpec == BoreeInit /\ [][BoreeNext]_vars

(* ------------- daycare specification: the characteristics --------------- *)
\* The menu with options 1 to 6 and 9 on Jerries of happiness 40
PhyNames == {PhyA, PhyWild}
\* the values typed for a characteristic and for the value remembered
PhyVals == {1}
SimilarVals == {2}

DaycareFiles ==
    {file \in ConfigFiles : \A i \in DOMAIN file : file[i].happiness = 40}

DaycareInit ==
    /\ ctor = NoCtor
    /\ ncall = NoNCall
    /\ ListIdle
    /\ PrimeIdle
    /\ HtUnused
    /\ MvIdle
    /\ charSigned \in BOOLEAN
    /\ \E file \in DaycareFiles, wild \in WildOutcomes :
       \E r \in {Startup(file, 1, wild, NoFail)} :
          /\ JerriesList = Relocate(r.list)
          /\ JerriesHash = RelocateHash(r.hash)
          /\ PhycharMultiHash = IF r.multi = NULL THEN NULL
                                ELSE RelocateTable(r.multi)
          /\ phyLists = RelocateHeap(r.heap)
          /\ jerryObj = r.objs
          /\ bpc = r.pc
          /\ life = r.life
    /\ bcall = NoBCall
    /\ plays = 0

\* the outcomes of the reads a command makes for this ID and this name
PhyWildOutcomes(id, name) ==
    IF \/ ~InTable(JerriesHash, HashIndex(JerriesHash, id))
       \/ ~InTable(PhycharMultiHash.HashTable,
                   HashIndex(PhycharMultiHash.HashTable, name))
    THEN WildOutcomes
    ELSE {"null"}

\* menu option 2
BoreeAddPhy(id, name, value, mem, wild) ==
    /\ bpc = "run"
    /\ \E r \in {AddPhCharToJerryInBoree(JerriesHash, PhycharMultiHash,
                                         phyLists, JerriesList, jerryObj, id,
                                         name, value, mem, wild)} :
       /\ PhycharMultiHash' = RelocateTable(r.multi)
       /\ phyLists' = RelocateHeap(r.heap)
       /\ jerryObj' = r.objs
       /\ bpc' = AfterCommand(r.status, r.trap)
       /\ bcall' = [NoBCall EXCEPT !.op = "AddPhCharToJerryInBoree",
                                   !.id = id, !.ch = name,
                                   !.status = r.status]
    /\ UNCHANGED <<JerriesList, JerriesHash, plays, life, notBoree>>

\* menu option 3
BoreeRemovePhy(id, name, mem, wild) ==
    /\ bpc = "run"
    /\ \E r \in {RemovePhayCharFromJerryBoree(JerriesHash, PhycharMultiHash,
                                              phyLists, JerriesList, jerryObj,
                                              id, name, mem, wild)} :
       /\ PhycharMultiHash' = RelocateTable(r.multi)
       /\ phyLists' = RelocateHeap(r.heap)
       /\ jerryObj' = r.objs
       /\ bpc' = AfterCommand(r.status, r.trap)
       /\ bcall' = [NoBCall EXCEPT !.op = "RemovePhayCharFromJerryBoree",
                                   !.id = id, !.ch = name,
                                   !.status = r.status,
                                   !.freed = r.freed]
    /\ UNCHANGED <<JerriesList, JerriesHash, plays, life, notBoree>>

\* menu option 5
BoreeSimilar(name, value, wild) ==
    /\ bpc = "run"
    /\ \E r \in {FindMostSimilarJerry(JerriesHash, PhycharMultiHash, phyLists,
                                      JerriesList, jerryObj, name, value,
                                      wild)} :
       /\ JerriesList' = Relocate(r.list)
       /\ JerriesHash' = RelocateHash(r.hash)
       /\ PhycharMultiHash' = RelocateTable(r.multi)
       /\ phyLists' = RelocateHeap(r.heap)
       /\ jerryObj' = r.objs
       /\ bpc' = AfterCommand(r.status, r.trap)
       /\ bcall' = [NoBCall EXCEPT !.op = "FindMostSimilarJerry",
                                   !.ch = name, !.status = r.status,
                                   !.freed = r.freed]
    /\ UNCHANGED <<plays, life, notBoree>>

DaycareNext ==
    \/ /\ bpc = "run"
       /\ \E id \in AllIds, mem \in {"ok", "node_fail", "bucket_fail"} :
             \E wild \in BoreeWild(JerriesHash, id) :
                BoreeTake(id, TRUE, 40, mem, wild)
    \/ /\ bpc = "run"
       /\ \E id \in BoreeIds, name \in PhyNames, value \in PhyVals,
             mem \in AddMemOutcomes :
             \E wild \in PhyWildOutcomes(id, name) :
                BoreeAddPhy(id, name, value, mem, wild)
    \/ /\ bpc = "run"
       /\ \E id \in BoreeIds, name \in PhyNames, mem \in {"ok", "array_fail"} :
             \E wild \in PhyWildOutcomes(id, name) :
                BoreeRemovePhy(id, name, mem, wild)
    \/ /\ bpc = "run"
       /\ \E id \in AllIds :
             \E wild \in RemoveWild(id) : BoreeRemove(id, wild)
    \/ /\ bpc = "run"
       /\ \E name \in PhyNames, value \in SimilarVals :
             \E wild \in IF charSigned THEN WildOutcomes ELSE {"null"} :
                BoreeSimilar(name, value, wild)
    \/ /\ bpc = "run"
       /\ \E wild \in UNION {RemoveWild(id) : id \in BoreeIds} :
             BoreeSaddest(wild)
    \/ BoreeQuit
    \/ BoreeCleanUp

DaycareSpec == DaycareInit /\ [][DaycareNext]_vars

(* ------------------ the happiness of the Jerries ----------------------- *)
\* the IDs of the Jerries of the list, in the order of the list
IDsOf(list) == [i \in 1..Len(Contents(list)) |-> Contents(list)[i].ID]

\* the Jerries in the daycare: those of the Jerries list
InDaycare(id) == \E i \in DOMAIN IDsOf(JerriesList) : IDsOf(JerriesList)[i] = id

\* C29: at the menu, after the configuration was loaded and after any
\* sequence of TakeThisJerryAway and LetJerriesPlay commands, every Jerry of
\* the daycare has a happiness level from 1 to 100.
C29_HappinessInRange ==
    bpc = "run" =>
       \A id \in AllIds :
          InDaycare(id) => jerryObj[id].happiness \in 1..100

\* the activities keep a happiness level of 0..100 within 0..100
PercentKept ==
    [][(/\ bcall'.op = "LetJerriesPlay"
        /\ \A id \in AllIds :
              InDaycare(id) => jerryObj[id].happiness \in 0..100)
          => \A id \in AllIds :
                InDaycare(id) => jerryObj'[id].happiness \in 0..100]_vars

\* min(h + d, 100) and max(h - d, 0), for every int h
Capped(h, d) == IF h >= 100 - d THEN 100 ELSE h + d
Floored(h, d) == IF h <= d THEN 0 ELSE h - d

\* the happiness the documentation of the activity gives a Jerry of
\* happiness h
Documented(ch, h) ==
    CASE ch = "1" -> IF h < 20 THEN Floored(h, 5) ELSE Capped(h, 15)
      [] ch = "2" -> IF h < 50 THEN Floored(h, 10) ELSE Capped(h, 10)
      [] ch = "3" -> Capped(h, 20)
      [] OTHER    -> h

\* the step is the activity ch played by the Jerries of a list that is not
\* empty
Played(ch) ==
    /\ bcall'.op = "LetJerriesPlay"
    /\ bcall'.ch = ch
    /\ getLengthList(JerriesList) > 0

\* C30: InteractFakeBeth gives every Jerry of happiness h the happiness
\* max(h - 5, 0) when h < 20 and min(h + 15, 100) otherwise, playGolf
\* max(h - 10, 0) when h < 50 and min(h + 10, 100) otherwise,
\* AdjustPictureSettOnTv min(h + 20, 100); the Jerries of the list and their
\* order stay as they were.
C30_ActivitiesAsDocumented ==
    [][\A ch \in {"1", "2", "3"} :
          Played(ch) =>
             /\ IDsOf(JerriesList') = IDsOf(JerriesList)
             /\ bcall'.status = success
             /\ \A id \in AllIds :
                   InDaycare(id) =>
                      jerryObj'[id].happiness
                         = Documented(ch, jerryObj[id].happiness)]_vars

\* the same for the lists whose Jerries have a happiness from which "h + 20"
\* and "h - 10" are ints
ActivitiesWithinInts ==
    [][\A ch \in {"1", "2", "3"} :
          (Played(ch) /\ ~Overflows(ch)) =>
             /\ IDsOf(JerriesList') = IDsOf(JerriesList)
             /\ bcall'.status = success
             /\ \A id \in AllIds :
                   InDaycare(id) =>
                      jerryObj'[id].happiness
                         = Documented(ch, jerryObj[id].happiness)]_vars

\* a Jerry of happiness INT_MAX has played and the sum was wrapped around
ActivityWrapped ==
    /\ bcall.op = "LetJerriesPlay"
    /\ \E id \in AllIds : InDaycare(id) /\ jerryObj[id].happiness < 0 - 100

(* ------------------- taking a Jerry out of the daycare ------------------ *)
\* the Jerry of this ID is in none of the three structures: not in the
\* list, not under a key of the hash table, in no value list of the
\* multi-value table
Absent(list, hash, heap, id) ==
    /\ \A i \in DOMAIN IDsOf(list) : IDsOf(list)[i] # id
    /\ lookupInHashTable(hash, id, "null").ret = NULL
    /\ \A l \in DOMAIN heap :
          heap[l] # NULL =>
             \A i \in DOMAIN Contents(heap[l]) : Contents(heap[l])[i].ID # id

\* the sequence without its i-th element
Except(seq, i) ==
    [k \in 1..(Len(seq) - 1) |-> IF k < i THEN seq[k] ELSE seq[k + 1]]

\* the Jerries other than this one are where they were
OthersStay(id) ==
    /\ \A other \in AllIds \ {id} :
          /\ InDaycare(other) =>
                /\ \E i \in DOMAIN IDsOf(JerriesList') :
                      IDsOf(JerriesList')[i] = other
                /\ jerryObj'[other] = jerryObj[other]
          /\ lookupInHashTable(JerriesHash', other, "null").ret
                = lookupInHashTable(JerriesHash, other, "null").ret

\* the step is RemoveJerryFromBoree(id)
Removing(id) == bcall'.op = "RemoveJerryFromBoree" /\ bcall'.id = id

\* the three structures are as they were
StructuresUnchanged ==
    /\ JerriesList' = JerriesList
    /\ JerriesHash' = JerriesHash
    /\ PhycharMultiHash' = PhycharMultiHash
    /\ phyLists' = phyLists

RemoveContract(id) ==
    IF lookupInHashTable(JerriesHash, id, "null").ret # NULL
    THEN /\ bcall'.status = success
         /\ Absent(JerriesList', JerriesHash', phyLists', id)
         /\ OthersStay(id)
    ELSE /\ bcall'.status = success
         /\ StructuresUnchanged

\* C27: RemoveJerryFromBoree(id) returns success; for an id of the Jerries
\* hash table the Jerry is then in none of the hash table, the list and the
\* value lists of the multi-value table, and for any other id the three
\* structures are unchanged.
C27_RemoveJerryFromBoree ==
    [][\A id \in AllIds : Removing(id) => RemoveContract(id)]_vars

\* the same for the IDs that hash to a bucket of the hash table and the
\* Jerries whose characteristics all hash to a bucket of the multi-value
\* table
RemoveWithinTables ==
    [][\A id \in AllIds :
          (Removing(id) /\ RemoveWild(id) = {"null"}) => RemoveContract(id)]_vars

\* a Jerry is out of the hash table and still in the list
HalfRemoved ==
    /\ bcall.op = "RemoveJerryFromBoree"
    /\ bcall.status = Invalid_input
    /\ InDaycare(bcall.id)
    /\ lookupInHashTable(JerriesHash, bcall.id, "null").ret = NULL

\* the happiness of the i-th Jerry of the list
HappinessAt(i) == jerryObj[IDsOf(JerriesList)[i]].happiness

\* the place in the list of the first of the Jerries of lowest happiness
Saddest ==
    CHOOSE i \in DOMAIN IDsOf(JerriesList) :
       \A j \in DOMAIN IDsOf(JerriesList) :
          /\ HappinessAt(i) <= HappinessAt(j)
          /\ HappinessAt(j) = HappinessAt(i) => i <= j

SaddestContract ==
    IF getLengthList(JerriesList) = 0
    THEN StructuresUnchanged /\ jerryObj' = jerryObj
    ELSE /\ bcall'.status = success
         /\ IDsOf(JerriesList') = Except(IDsOf(JerriesList), Saddest)
         /\ Absent(JerriesList', JerriesHash', phyLists',
                   IDsOf(JerriesList)[Saddest])
         /\ OthersStay(IDsOf(JerriesList)[Saddest])

\* C28: on a list that is not empty GiveSaddestJerry returns success and
\* takes out of the daycare exactly the first, in the order of the list, of
\* the Jerries of lowest happiness, whatever the happiness levels are; on
\* the empty list it removes nothing.
C28_GiveSaddestJerry ==
    [][bcall'.op = "GiveSaddestJerry" => SaddestContract]_vars

\* the same for the lists with a Jerry of happiness 100 or less whose
\* saddest Jerry has only characteristics that hash to a bucket of the
\* multi-value table
SaddestWithinPercent ==
    [][(/\ bcall'.op = "GiveSaddestJerry"
        /\ getLengthList(JerriesList) > 0 =>
              /\ HappinessAt(Saddest) <= 100
              /\ RemoveWild(IDsOf(JerriesList)[Saddest]) = {"null"})
          => SaddestContract]_vars

\* GiveSaddestJerry has returned Invalid_input on a list of Jerries whose
\* characteristics all hash to a bucket, and took no Jerry
NoSaddestFound ==
    /\ bcall.op = "GiveSaddestJerry"
    /\ bcall.status = Invalid_input
    /\ getLengthList(JerriesList) = 2
    /\ \A id \in AllIds :
          InDaycare(id) =>
             /\ jerryObj[id].happiness > 100
             /\ lookupInHashTable(JerriesHash, id, "null").ret # NULL

\* GiveSaddestJerry took the first of two Jerries of the same happiness
TieGiven ==
    /\ bcall.op = "GiveSaddestJerry"
    /\ bcall.status = success
    /\ IDsOf(JerriesList) = <<Str(<<50>>)>>
    /\ jerryObj[Str(<<50>>)].happiness = 40
    /\ plays = 0

\* ------------------------------------------------------------------
\* The counter of the hash table
\* ------------------------------------------------------------------

\* the number of key-value pairs in the buckets from index i on
RECURSIVE PairsFrom(_, _)
PairsFrom(HashTable, i) ==
    IF i >= HashTable.tableSize THEN 0
    ELSE getLengthList(HashTable.table[i]) + PairsFrom(HashTable, i + 1)

\* C36: the numberOfElements field of the hash table equals the number of
\* key-value pairs stored in all its buckets, after any sequence of
\* addToHashTable and removeFromHashTable.
C36_NumberOfElements ==
    ht # NULL => ht.numberOfElements = PairsFrom(ht, 0)

\* the field is written once, by createHashTable
NumberOfElementsStays ==
    ht # NULL => ht.numberOfElements = 0

\* a table holding two pairs whose counter is 0
CounterBehind ==
    /\ ht # NULL
    /\ PairsFrom(ht, 0) = 2
    /\ ht.numberOfElements = 0

ClosedAtStartup ==
    /\ bpc = "exit"
    /\ bcall.op = "none"
    /\ \A s \in Structures : life[s] = "destroyed"

\* main has returned at start-up with no hash table created
ClosedWithoutHash ==
    /\ bpc = "exit"
    /\ life["JerriesList"] = "destroyed"
    /\ life["JerriesHash"] = "none"


(* ------------------- the hash table and the list ------------------------ *)
\* the menu is shown after start-up or after a command that returned success
AtMenu ==
    /\ bpc = "run"
    /\ bcall.op = "none" \/ bcall.status = success

\* the keys of the pairs of a hash table
KeysOf(HashTable) == {p[3] : p \in PairsOf(HashTable)}

\* C32: after start-up and after every menu command that returned success
\* the keys of the Jerries hash table are the IDs of the Jerries of the
\* Jerries list, no key and no ID occurring twice, and each key maps to the
\* Jerry of that ID, which is a live struct.
C32_HashMatchesList ==
    AtMenu =>
       /\ KeysOf(JerriesHash) = {id \in AllIds : InDaycare(id)}
       /\ Cardinality(PairsOf(JerriesHash)) = getLengthList(JerriesList)
       /\ Cardinality(KeysOf(JerriesHash)) = getLengthList(JerriesList)
       /\ \A i \in DOMAIN IDsOf(JerriesList) :
             /\ IDsOf(JerriesList)[i] \in AllIds
             /\ lookupInHashTable(JerriesHash, IDsOf(JerriesList)[i],
                                  "null").ret
                   = Contents(JerriesList)[i]
             /\ jerryObj[IDsOf(JerriesList)[i]] # NULL

\* TakeThisJerryAway has put a second Jerry, of an ID the configuration file
\* does not name, into the daycare
TakenIntoBoth ==
    /\ AtMenu
    /\ bcall.op = "TakeThisJerryAway"
    /\ bcall.id = WildId
    /\ InDaycare(WildId)
    /\ getLengthList(JerriesList) = 2

\* RemoveJerryFromBoree has taken one of two Jerries out of the daycare
RemovedFromBoth ==
    /\ AtMenu
    /\ bcall.op = "RemoveJerryFromBoree"
    /\ ~InDaycare(bcall.id)
    /\ getLengthList(JerriesList) = 1
    /\ plays = 0


(* --------------- the multi-value table and the Jerries ------------------ *)
\* the value list the multi-value table holds for a characteristic name
JerriesOf(c) ==
    IF lookupInMultiValueHashTable(PhycharMultiHash, c, "null").ret = NULL
    THEN <<>>
    ELSE Contents(phyLists[
            lookupInMultiValueHashTable(PhycharMultiHash, c, "null").ret.lptr])

\* the number of places of the sequence that hold x
CountIn(seq, x) == Cardinality({i \in DOMAIN seq : seq[i] = x})

\* c is one of the physical characteristics of the Jerry of this ID
HasPhyChar(id, c) ==
    \E k \in DOMAIN jerryObj[id].PhysicalChar :
       jerryObj[id].PhysicalChar[k] = c

\* the Jerry of the list is in the list of c once if it has c, else not
ListedAsItHas(id, c) ==
    CountIn(JerriesOf(c), JerryPtr(id)) = IF HasPhyChar(id, c) THEN 1 ELSE 0

\* every Jerry of a value list is a Jerry of the Jerries list
OnlyJerriesOfTheList ==
    \A l \in DOMAIN phyLists :
       phyLists[l] # NULL =>
          \A i \in DOMAIN Contents(phyLists[l]) :
             InDaycare(Contents(phyLists[l])[i].ID)

\* C33: after start-up and after every menu command that returned success,
\* every Jerry of the Jerries list occurs in the multi-value table's list of
\* a characteristic name exactly once if it has that characteristic and not
\* at all otherwise, and the lists of the multi-value table hold no Jerry
\* that is not in the Jerries list.
C33_MultiMatchesJerries ==
    AtMenu =>
       /\ \A c \in PhyNames, id \in AllIds :
             InDaycare(id) => ListedAsItHas(id, c)
       /\ OnlyJerriesOfTheList

\* the same for the characteristic names that hash to a bucket of the
\* multi-value table
MultiMatchesWithinTable ==
    AtMenu =>
       /\ \A c \in PhyNames, id \in AllIds :
             (/\ InDaycare(id)
              /\ InTable(PhycharMultiHash.HashTable,
                         HashIndex(PhycharMultiHash.HashTable, c)))
                => ListedAsItHas(id, c)
       /\ OnlyJerriesOfTheList

\* AddPhCharToJerryInBoree returned success for a name of negative hash:
\* the Jerry has the characteristic and the table has no list for it
AddedToJerryOnly ==
    /\ AtMenu
    /\ bcall.op = "AddPhCharToJerryInBoree"
    /\ bcall.ch = PhyWild
    /\ InDaycare(bcall.id)
    /\ HasPhyChar(bcall.id, PhyWild)
    /\ JerriesOf(PhyWild) = <<>>

\* a Jerry was added to the list of a characteristic another Jerry has
AddedToSharedList ==
    /\ AtMenu
    /\ bcall.op = "AddPhCharToJerryInBoree"
    /\ Len(JerriesOf(PhyA)) = 2


(* ----------------- the value copies of the calls ------------------------ *)
\* C34: for a multi-value table built with a copyValue that allocates its
\* copies, every copy addToMultiValueHashTable or
\* removeFromMultiValueHashTable obtained through copyValue is, when the
\* call returns, in a value list or was passed to freeValue: no copy is
\* owned by nobody.
C34_NoCopyUnowned ==
    (mv # NULL /\ Allocates(mv.copyValue)) => mmem.copies = 0

\* addToMultiValueHashTable leaves no copy unowned
AddOwnsItsCopies ==
    [][(/\ mv # NULL
        /\ Allocates(mv.copyValue)
        /\ mcall'.op = "addToMultiValueHashTable")
          => mmem'.copies = mmem.copies]_vars

\* removeFromMultiValueHashTable returned success and the copy that
\* searchByKeyInList gave it is in no list and was not freed
CopyLeftByRemove ==
    /\ mv # NULL
    /\ Allocates(mv.copyValue)
    /\ mcall.op = "removeFromMultiValueHashTable"
    /\ mcall.status = success
    /\ mmem.copies = 1

\* a failed insert after the copy was made: the copy was passed to freeValue
CopyFreedByAdd ==
    /\ mv # NULL
    /\ Allocates(mv.copyValue)
    /\ mcall.op = "addToMultiValueHashTable"
    /\ mcall.append = success
    /\ mcall.destroyed = 1
    /\ mmem.copies = 0


(* ------------------- the lifetime of the Jerries ------------------------ *)
\* the Jerries some pointer of the Jerries list, of the Jerries hash table
\* or of a value list of the multi-value table leads to
JerriesHeld ==
    {id \in AllIds :
        \/ InDaycare(id)
        \/ \E p \in PairsOf(JerriesHash) : p[4] = JerryPtr(id)
        \/ \E l \in DOMAIN phyLists :
              /\ phyLists[l] # NULL
              /\ \E i \in DOMAIN Contents(phyLists[l]) :
                    Contents(phyLists[l])[i] = JerryPtr(id)}

\* no pointer of the three structures leads to a freed Jerry, so that no
\* command, which reaches the Jerries through them, reads one
NoFreedJerryHeld ==
    bpc \in {"run", "cleanup"} => \A id \in JerriesHeld : jerryObj[id] # NULL

\* the commands that remove a Jerry, all through RemoveJerryFromBoree
RemovalCommands ==
    {"RemoveJerryFromBoree", "GiveSaddestJerry", "FindMostSimilarJerry"}

\* the frees of one step: made by the Jerries list only, in a removal or in
\* CleanUp, each of a Jerry that was allocated, none twice, and a Jerry is
\* no longer allocated exactly when the step freed it
FreedByTheListOnce ==
    /\ \A k \in DOMAIN bcall'.freed :
          /\ bcall'.freed[k].by = "JerriesList"
          /\ bcall'.op \in RemovalCommands \cup {"CleanUp"}
          /\ jerryObj[bcall'.freed[k].ID] # NULL
          /\ jerryObj'[bcall'.freed[k].ID] = NULL
          /\ \A j \in DOMAIN bcall'.freed :
                bcall'.freed[j].ID = bcall'.freed[k].ID => j = k
    /\ \A id \in AllIds :
          (jerryObj[id] # NULL /\ jerryObj'[id] = NULL)
             => \E k \in DOMAIN bcall'.freed : bcall'.freed[k].ID = id

\* when main returns after CleanUp no Jerry is left allocated
AllJerriesFreed ==
    (bpc = "exit" /\ bcall.op = "CleanUp")
       => \A id \in AllIds : jerryObj[id] = NULL

\* C35: across any sequence of menu commands ended by CleanUp each Jerry
\* struct is freed exactly once, by the free function of the Jerries list in
\* a removal through RemoveJerryFromBoree or in CleanUp and never by the
\* Jerries hash table or the multi-value table, and no structure leads a
\* command to a Jerry that was freed.
C35_EachJerryFreedOnce ==
    /\ []NoFreedJerryHeld
    /\ [][FreedByTheListOnce]_vars
    /\ []AllJerriesFreed

\* the same without the Jerries that never entered the Jerries list: no
\* Jerry is freed twice or by a table or read after it was freed, and
\* CleanUp frees every Jerry of the list
ListedJerriesFreedOnce ==
    /\ []NoFreedJerryHeld
    /\ [][/\ FreedByTheListOnce
          /\ bcall'.op = "CleanUp" =>
                \A id \in AllIds : InDaycare(id) => jerryObj'[id] = NULL]_vars

\* main has returned after CleanUp and a Jerry is still allocated: the one
\* TakeThisJerryAway created when the node of the list could not be
\* allocated
JerryLeftAllocated ==
    /\ bpc = "exit"
    /\ bcall.op = "CleanUp"
    /\ \E id \in AllIds : jerryObj[id] # NULL

\* a removal command freed a Jerry and CleanUp, later, the others
FreedAtRemoval ==
    /\ bcall.op \in RemovalCommands
    /\ Len(bcall.freed) = 1

FreedAtCleanUp ==
    /\ bcall.op = "CleanUp"
    /\ Len(bcall.freed) = 2

====
